---------------------------- MODULE Spec2Model ----------------------------
(***************************************************************************)
(* Model of talk-parity's SpeakerDiarizationService                        *)
(* (src/src/services/SpeakerDiarizationService.ts).                        *)
(*                                                                         *)
(* One run of transcribeWithDiarization is an async function: it runs      *)
(* synchronously from one `await` of a network round trip (or of the poll  *)
(* timer) to the next.  Each action below is one such stretch of code:     *)
(*   Transcribe      lines  65-320  call .. upload POST issued             *)
(*   UploadSettles   lines 322-405  upload settled .. submit POST issued   *)
(*   SubmitSettles   lines 407-495  submit settled .. first GET issued     *)
(*   PollSettles     lines 497-609  GET settled .. timer armed / finished  *)
(*   TimerFires      lines 600-612, 476-495  timer .. next GET / timeout   *)
(* A JavaScript value that may be undefined is modelled as a sequence of   *)
(* length at most one: <<>> is undefined, <<v>> is the value v.            *)
(* An error message built by a template literal is the sequence of its     *)
(* parts, so that the text a message carries can be read back from it.     *)
(*                                                                         *)
(* Each stretch is a function of the observer (UploadStep and the like),   *)
(* so that what a run does can be compared across observers.               *)
(* SpecRecorder is AudioRecorderService (lines 814-951); SpecStats and     *)
(* SpecWords call calculateSpeakerStats and groupWordsBySpeaker on every   *)
(* input of a bounded set.                                                 *)
(***************************************************************************)
EXTENDS Integers, Sequences, FiniteSets, TLC

VARIABLES
    apiKey,          \* this.apiKey (line 24)
    requestCallback, \* this.requestCallback is registered (line 27)
    pc,              \* where the current invocation is suspended
    audioFile,       \* the File the invocation uploads (lines 188-233)
    uploadUrl,       \* uploadData.upload_url (line 355)
    transcriptId,    \* transcriptResponse.data.id (line 436)
    attempts,        \* pollForCompletion's attempts (line 465)
    apiInfo,         \* apiInfo: uploadSize (line 68), transcriptStatus, pollAttempts (lines 501-502)
    inflight,        \* the requests (places in netLog) issued and not yet settled
    netLog,          \* every request issued by the invocation, in order
    events,          \* what requestCallback was called with, in order
    response,        \* how the latest request settled (uploadResponse, transcriptResponse, response)
    nonTerminal,     \* poll responses received that were neither completed nor error
    outcome,         \* how the invocation's promise settled
    mediaRecorder,   \* AudioRecorderService.mediaRecorder (line 815): a place in recorders
    audioChunks,     \* AudioRecorderService.audioChunks (line 816): the sizes of the chunks kept
    stream,          \* AudioRecorderService.stream (line 817): a place in streams
    recorders,       \* the MediaRecorder objects created so far (line 841)
    streams,         \* the MediaStreams getUserMedia returned (line 825): are their tracks live
    startCalls,      \* startRecording calls suspended at `await getUserMedia` (line 825)
    stopCalls,       \* the promise of every stopRecording call so far (line 860)
    conversions,     \* onstop handlers suspended at `await this.convertToWav` (line 889)
    args,            \* the arguments of a call of a pure method
    returned,        \* what that call returned
    runs,            \* the locals of every transcribeWithDiarization invocation made side by side
    provider,        \* what the provider keeps: the uploads and the jobs it was given
    recordingState,        \* App: the recordingState hook (SpeakerStats.tsx line 366)
    currentHistoryId,      \* App: the history item on display (line 380)
    lastSavedTranscriptId, \* App: the transcript saved last (line 381)
    history,               \* App: the history hook (line 379)
    localStorage,          \* the items stored under 'talk-parity-history'
    transcribing,          \* every processAudio call so far: is it pending or settled
    loadedFromHistory,     \* were the speakers on display put there by handleLoadHistoryItem
    autoSaved              \* what the auto-save effect saved, in order

\* the diarization client
clientVars == <<apiKey, requestCallback, pc, audioFile, uploadUrl, transcriptId,
                attempts, apiInfo, inflight, netLog, events, response, nonTerminal, outcome>>

\* the recorder
recorderVars == <<mediaRecorder, audioChunks, stream, recorders, streams,
                  startCalls, stopCalls, conversions>>

\* a call of a pure method
callVars == <<args, returned>>

\* invocations of transcribeWithDiarization running side by side
concurrentVars == <<runs, provider>>

\* the App component and the history it keeps
appVars == <<recordingState, currentHistoryId, lastSavedTranscriptId, history,
             localStorage, transcribing, loadedFromHistory, autoSaved>>

vars == <<clientVars, recorderVars, callVars, concurrentVars, appVars>>

----------------------------------------------------------------------------
(* JavaScript values *)

Undefined == <<>>

Some(v) == <<v>>

\* Truthiness of an optional string: undefined and "" are falsy.
Truthy(o) == o # Undefined /\ o[1] # ""

\* Truthiness of an optional number: undefined and 0 are falsy.
TruthyNum(o) == o # Undefined /\ o[1] # 0

\* a || b on optional strings
OrElse(a, b) == IF Truthy(a) THEN a ELSE b

\* a || b on optional numbers
OrElseNum(a, b) == IF TruthyNum(a) THEN a ELSE b

----------------------------------------------------------------------------
(* Program constants *)

maxAttempts == 60

MinBlobSize == 1000

HeaderBytes == 12

apiUrl == "https://api.assemblyai.com/v2"

UploadEndpoint == <<apiUrl, "/upload">>

TranscriptEndpoint == <<apiUrl, "/transcript">>

PollEndpoint(id) == <<apiUrl, "/transcript/", id>>

----------------------------------------------------------------------------
(* Errors.  The code throws plain Error objects told apart by their message; *)
(* the platform throws TypeError / SyntaxError, axios throws AxiosError.     *)

Err(name, message) == [name |-> name, message |-> message, response |-> Undefined]

ApiKeyNotSet == Err("Error", <<"API key not set. Please configure your AssemblyAI API key in the .env file or settings.">>)

AudioEmpty == Err("Error", <<"Audio file is empty. Please record some audio first.">>)

AudioTooSmall == Err("Error", <<"Audio file is too small. Please record at least a few seconds of audio.">>)

InvalidFormat == Err("Error", <<"Audio file has invalid format. WAV conversion may have failed. Please try recording again.">>)

InvalidAudioFormat(type) == Err("Error", <<"Invalid audio format: ", type, ". Expected audio/wav or similar.">>)

InvalidWav == Err("Error", <<"Generated WAV file is invalid. The file header does not match WAV format. Please try recording again.">>)

UploadFailed(status, errorText) == Err("Error", <<"Upload failed (", status, "): ", errorText>>)

NoUploadUrl == Err("Error", <<"Failed to get upload URL from API response">>)

StartFailed(errorMessage) == Err("Error", <<"Failed to start transcription: ", errorMessage>>)

NoTranscriptId == Err("Error", <<"Failed to get transcript ID from API response">>)

NoSpeech == Err("Error", <<"Transcription completed but no speech was detected. Please ensure the audio contains clear speech.">>)

TranscriptionFailed(errorMessage) == Err("Error", <<"Transcription failed: ", errorMessage>>)

CheckFailed(errorMessage) == Err("Error", <<"Failed to check transcription status: ", errorMessage>>)

Timeout == Err("Error", <<"Transcription timeout - the audio file may be too long or the service is taking longer than expected.">>)

NoUtterances == Err("Error", <<"No utterances found in transcription response">>)

----------------------------------------------------------------------------
(* The audio input *)

MimeTypes == {"", "application/octet-stream", "audio/wav", "audio/mpeg", "video/mp4"}

FileNames == {"talk.mp3", "notes.txt"}

\* how far below the size threshold the inputs of the model reach
MaxBelow == 1

BlobSizes == {0} \cup ((MinBlobSize - MaxBelow)..MinBlobSize)

\* A Blob or File: `name` is a File's name; headerIsWav says whether its first
\* 12 bytes start with 'RIFF' and include 'WAVE'.
AllBlobs == [isFile : BOOLEAN, size : BlobSizes, type : MimeTypes,
             name : {"talk.wav"}, headerIsWav : BOOLEAN]

\* the inputs of the model: every size for a recorded WAV blob and for a WAV
\* file, every type and header for a blob or file of the minimum size
Blobs ==
    {b \in AllBlobs : b.size = MinBlobSize \/ (b.type \in {"audio/wav", ""} /\ b.headerIsWav)}

FileNameArgs == {Undefined} \cup {Some(n) : n \in FileNames}

\* String.prototype.includes on the MIME types of the model
Includes(type, part) ==
    CASE part = "wav"  -> type = "audio/wav"
      [] part = "mp3"  -> FALSE
      [] part = "mpeg" -> type = "audio/mpeg"
      [] part = "mp4"  -> type = "video/mp4"
      [] part = "m4a"  -> FALSE
      [] part = "ogg"  -> FALSE
      [] part = "webm" -> type = "audio/webm"

\* type.startsWith('audio/')
StartsWithAudio(type) == type \in {"audio/wav", "audio/webm", "audio/mpeg", "audio/mp4", "audio/ogg"}

\* fileName.toLowerCase().split('.').pop()
Extension(fileName) ==
    CASE fileName \in {"talk.wav", "recording.wav"} -> "wav"
      [] fileName \in {"talk.mp3", "recording.mp3"} -> "mp3"
      [] fileName = "recording.m4a" -> "m4a"
      [] fileName = "recording.ogg" -> "ogg"
      [] fileName = "notes.txt" -> "txt"

\* lines 91-110: the file name used when the caller gives none
InferFileName(blob, fileName) ==
    IF fileName # Undefined THEN fileName[1]
    ELSE IF blob.isFile THEN blob.name
    ELSE IF Includes(blob.type, "wav") THEN "recording.wav"
    ELSE IF Includes(blob.type, "mp3") \/ Includes(blob.type, "mpeg") THEN "recording.mp3"
    ELSE IF Includes(blob.type, "mp4") \/ Includes(blob.type, "m4a") THEN "recording.m4a"
    ELSE IF Includes(blob.type, "ogg") THEN "recording.ogg"
    ELSE IF Includes(blob.type, "webm") THEN "recording.wav"
    ELSE "recording.wav"

\* lines 119-131: the MIME type inferred from the file name's extension
MimeFromExtension(ext) ==
    CASE ext = "wav" -> "audio/wav"
      [] ext = "mp3" -> "audio/mpeg"
      [] ext \in {"m4a", "mp4"} -> "audio/mp4"
      [] ext = "ogg" -> "audio/ogg"
      [] ext = "webm" -> "audio/webm"
      [] OTHER -> "audio/wav"

InvalidType(type) == type = "" \/ type = "application/octet-stream"

\* line 77: !audioBlob || audioBlob.size === 0
IsEmpty(size) == size = 0

\* the size threshold off by one
TooSmallBelow999(size) == size < MinBlobSize - 1

\* line 81: audioBlob.size < 1000
TooSmall(size) == size < MinBlobSize

\* lines 114-134: a Blob without a usable MIME type is re-typed from the name
Retyped(blob, name) ==
    IF ~blob.isFile /\ InvalidType(blob.type)
    THEN [blob EXCEPT !.type = MimeFromExtension(Extension(name))]
    ELSE blob

\* the credential is checked after the audio instead of before it
PreflightErrorKeyLast(key, blob0, fileName) ==
    LET name == InferFileName(blob0, fileName)
        blob == Retyped(blob0, name)
    IN  IF IsEmpty(blob0.size) THEN Some(AudioEmpty)
        ELSE IF TooSmall(blob0.size) THEN Some(AudioTooSmall)
        ELSE IF InvalidType(blob.type) THEN Some(InvalidFormat)
        ELSE IF ~StartsWithAudio(blob.type) THEN Some(InvalidAudioFormat(blob.type))
        ELSE IF key = "" THEN Some(ApiKeyNotSet)
        ELSE Undefined

\* the header of a recorded blob is not looked at
PreflightErrorAnyHeader(key, blob0, fileName) ==
    LET name == InferFileName(blob0, fileName)
        blob == Retyped(blob0, name)
    IN  IF key = "" THEN Some(ApiKeyNotSet)
        ELSE IF IsEmpty(blob0.size) THEN Some(AudioEmpty)
        ELSE IF TooSmall(blob0.size) THEN Some(AudioTooSmall)
        ELSE IF InvalidType(blob.type) THEN Some(InvalidFormat)
        ELSE IF ~StartsWithAudio(blob.type) THEN Some(InvalidAudioFormat(blob.type))
        ELSE Undefined

\* lines 72-276: the error thrown before any request is issued, <<>> when none
PreflightError(key, blob0, fileName) ==
    LET name == InferFileName(blob0, fileName)
        blob == Retyped(blob0, name)
        finalType == blob.type
    IN  IF key = "" THEN Some(ApiKeyNotSet)
        ELSE IF IsEmpty(blob0.size) THEN Some(AudioEmpty)
        ELSE IF TooSmall(blob0.size) THEN Some(AudioTooSmall)
        ELSE IF InvalidType(blob.type) THEN Some(InvalidFormat)
        ELSE IF ~StartsWithAudio(blob.type) THEN Some(InvalidAudioFormat(blob.type))
        ELSE IF ~blob.isFile /\ finalType = "audio/wav" /\ blob.size >= HeaderBytes
                /\ ~blob.headerIsWav THEN Some(InvalidWav)
        ELSE Undefined

\* lines 188-233: the File that is uploaded (its type and size; its name is
\* only logged)
AudioFileOf(blob0, fileName) ==
    LET blob == Retyped(blob0, InferFileName(blob0, fileName))
    IN  [type |-> blob.type, size |-> blob.size]

NoFile == [type |-> "", size |-> 0]

----------------------------------------------------------------------------
(* Requests and telemetry *)

Request(method, url, body) == [method |-> method, url |-> url, body |-> body]

\* What the registered observer does when it is called: there is none, it
\* returns, or it raises
Observers == {"none", "quiet", "raising"}

\* the observer of this service (line 27); the observers registered in a run
\* return normally
Observer == IF requestCallback THEN "quiet" ELSE "none"

\* whatever an observer throws
ObserverError == Err("Error", <<"observer failed">>)

\* lines 287-292 and the like: `if (this.requestCallback) this.requestCallback(ev)`,
\* the log of what the observer was called with
Notify(obs, evs, ev) == IF obs = "none" THEN evs ELSE Append(evs, ev)

\* the call is not guarded: what the observer raises is raised at the call site
Raises(obs) == obs = "raising"

Issued(method, url) == [method |-> method, url |-> url, phase |-> "request"]

Received(method, url, status) == [method |-> method, url |-> url, phase |-> "response", status |-> status]

Errored(method, url, status) == [method |-> method, url |-> url, phase |-> "error", status |-> status]

NoInfo == [uploadSize |-> 0, transcriptStatus |-> Undefined, pollAttempts |-> 0]

Pending == [state |-> "pending"]

Fulfilled(v) == [state |-> "fulfilled", value |-> v]

Rejected(e) == [state |-> "rejected", error |-> e]

----------------------------------------------------------------------------
ClientInit ==
    /\ apiKey = ""
    /\ requestCallback = FALSE
    /\ pc = "idle"
    /\ audioFile = NoFile
    /\ uploadUrl = Undefined
    /\ transcriptId = Undefined
    /\ attempts = 0
    /\ apiInfo = NoInfo
    /\ inflight = {}
    /\ netLog = <<>>
    /\ events = <<>>
    /\ response = Undefined
    /\ nonTerminal = 0
    /\ outcome = Pending

\* lines 815-818: the recorder after construction
RecorderInit ==
    /\ mediaRecorder = Undefined
    /\ audioChunks = <<>>
    /\ stream = Undefined
    /\ recorders = <<>>
    /\ streams = <<>>
    /\ startCalls = 0
    /\ stopCalls = <<>>
    /\ conversions = {}

\* no invocation has been made and the provider holds nothing
ConcurrentInit ==
    /\ runs = <<>>
    /\ provider = [uploads |-> <<>>, jobs |-> <<>>]

\* SpeakerStats.tsx lines 366-381: the App as mounted, with nothing stored
AppInit ==
    /\ recordingState = [isRecording |-> FALSE, isProcessing |-> FALSE, duration |-> 0,
                         speakers |-> <<>>, error |-> <<>>, apiInfo |-> <<>>]
    /\ currentHistoryId = <<>>
    /\ lastSavedTranscriptId = <<>>
    /\ history = <<>>
    /\ localStorage = <<>>
    /\ transcribing = <<>>
    /\ loadedFromHistory = FALSE
    /\ autoSaved = <<>>

\* the services after construction; no pure method has been called
Init ==
    /\ ClientInit
    /\ RecorderInit
    /\ ConcurrentInit
    /\ AppInit
    /\ args = Undefined
    /\ returned = Undefined

\* setApiKey (lines 40-42); the service is configured while no run is in
\* progress
setApiKey(key) ==
    /\ pc = "idle"
    /\ apiKey' = key
    /\ UNCHANGED <<requestCallback, pc, audioFile, uploadUrl, transcriptId,
                   attempts, apiInfo, inflight, netLog, events, response, nonTerminal, outcome>>
    /\ UNCHANGED <<recorderVars, callVars, concurrentVars, appVars>>

\* setRequestCallback (lines 32-34)
setRequestCallback(cb) ==
    /\ pc = "idle"
    /\ requestCallback' = cb
    /\ UNCHANGED <<apiKey, pc, audioFile, uploadUrl, transcriptId,
                   attempts, apiInfo, inflight, netLog, events, response, nonTerminal, outcome>>
    /\ UNCHANGED <<recorderVars, callVars, concurrentVars, appVars>>

\* What one stretch of the invocation does between two awaits: where it goes,
\* how the promise stands, what the observer was called with, and the request
\* it hands to fetch / axios, if any
Fail(err, evs) ==
    [pc |-> "failed", outcome |-> Rejected(err), events |-> evs, request |-> Undefined]

Go(to, evs, req) ==
    [pc |-> to, outcome |-> Pending, events |-> evs, request |-> Some(req)]

\* lines 65-320 for a given observer: validation, the "request" event of the
\* upload (lines 287-292), then the upload POST
TranscribeStep(obs, key, blob, fileName) ==
    LET err == PreflightError(key, blob, fileName)
        issued == Notify(obs, <<>>, Issued("POST", UploadEndpoint))
    IN  IF err # Undefined THEN Fail(err[1], <<>>)
        ELSE IF Raises(obs) THEN Fail(ObserverError, issued)
        ELSE Go("uploading", issued,
                Request("POST", UploadEndpoint, AudioFileOf(blob, fileName).size))

\* the awaited request has settled and the next one is handed to fetch / axios
Issue(req) ==
    /\ inflight' = (inflight \ {Len(netLog)}) \cup {Len(netLog) + 1}
    /\ netLog' = Append(netLog, req)

\* the outstanding request settled and none is issued
Settle ==
    /\ inflight' = inflight \ {Len(netLog)}
    /\ UNCHANGED netLog

\* the stretch takes effect
Apply(step) ==
    /\ pc' = step.pc
    /\ outcome' = step.outcome
    /\ events' = step.events
    /\ IF step.request # Undefined THEN Issue(step.request[1]) ELSE Settle

\* transcribeWithDiarization, lines 65-320: validation, then the upload POST
Transcribe(blob, fileName) ==
    /\ pc = "idle"
    /\ uploadUrl' = Undefined
    /\ transcriptId' = Undefined
    /\ attempts' = 0
    /\ apiInfo' = [NoInfo EXCEPT !.uploadSize = blob.size]
    /\ response' = Undefined
    /\ nonTerminal' = 0
    /\ audioFile' = IF PreflightError(apiKey, blob, fileName) # Undefined THEN NoFile
                    ELSE AudioFileOf(blob, fileName)
    /\ Apply(TranscribeStep(Observer, apiKey, blob, fileName))
    /\ UNCHANGED <<apiKey, requestCallback>>
    /\ UNCHANGED <<recorderVars, callVars, concurrentVars, appVars>>

----------------------------------------------------------------------------
(* What the provider can answer *)

\* fetch's Response: a status and a body that is JSON (data) or not (text)
JsonBody(data) == [json |-> TRUE, data |-> data, text |-> ""]

TextBody(text) == [json |-> FALSE, data |-> [upload_url |-> Undefined, error |-> Undefined], text |-> text]

UploadBodies ==
    { JsonBody([upload_url |-> Some("https://cdn.assemblyai.com/upload/1"), error |-> Undefined]),
      JsonBody([upload_url |-> Undefined, error |-> Undefined]),
      JsonBody([upload_url |-> Undefined, error |-> Some("Invalid API key")]),
      TextBody("Bad Gateway") }

HttpStatuses == {200, 401, 502}

\* Response.ok
Ok(status) == status >= 200 /\ status <= 299

\* what `await fetch(...)` gives: a Response, or a rejection (no connection)
UploadSettlements ==
    [rejected : {FALSE}, status : HttpStatuses, body : UploadBodies]
    \cup {[rejected |-> TRUE, status |-> 0, body |-> TextBody("")]}

FailedToFetch == Err("TypeError", <<"Failed to fetch">>)

NotJson == Err("SyntaxError", <<"Unexpected token in JSON">>)

BodyAlreadyRead == Err("TypeError", <<"body stream already read">>)

\* JSON.stringify(errorData) of the bodies above
Stringify(data) ==
    IF data.upload_url # Undefined THEN "{\"upload_url\":\"" \o data.upload_url[1] \o "\"}"
    ELSE IF data.error # Undefined THEN "{\"error\":\"" \o data.error[1] \o "\"}"
    ELSE "{}"

\* response.json(): reads the body to its end, then parses it
ReadJson(body) ==
    IF body.json THEN [ok |-> TRUE, value |-> body.data, error |-> NotJson, bodyUsed |-> TRUE]
    ELSE [ok |-> FALSE, value |-> body.data, error |-> NotJson, bodyUsed |-> TRUE]

\* response.text(): rejects when the body was read before
ReadText(body, bodyUsed) ==
    IF bodyUsed THEN [ok |-> FALSE, value |-> "", error |-> BodyAlreadyRead]
    ELSE [ok |-> TRUE, value |-> body.text, error |-> BodyAlreadyRead]

\* lines 330-338: the errorText of a non-2xx upload response, or what is thrown
\* while reading it
UploadErrorText(body) ==
    LET parsed == ReadJson(body)
    IN  IF parsed.ok
        THEN [ok |-> TRUE, value |-> OrElse(parsed.value.error, Some(Stringify(parsed.value)))[1],
              error |-> BodyAlreadyRead]
        ELSE ReadText(body, parsed.bodyUsed)

\* an axios rejection: error.response (when the server answered) and error.message
AxiosError(resp, message) ==
    [name |-> "AxiosError", message |-> message, response |-> resp]

StatusMessage(status) == "Request failed with status code " \o ToString(status)

SubmitData == [id : {Undefined, Some("tr_1")}, status : {Some("queued")}, error : {Undefined}]

SubmitErrorData == [id : {Undefined}, status : {Undefined}, error : {Undefined, Some("audio_url is invalid")}]

\* what `await axios.post(...)` gives
SubmitSettlements ==
    { [rejected |-> FALSE, status |-> 200, data |-> d, error |-> AxiosError(Undefined, <<>>)] : d \in SubmitData }
    \cup { [rejected |-> TRUE, status |-> st, data |-> d,
            error |-> AxiosError(Some([status |-> st, data |-> d]), <<StatusMessage(st)>>)] :
              st \in {400, 500}, d \in SubmitErrorData }
    \cup { [rejected |-> TRUE, status |-> 0, data |-> CHOOSE d \in SubmitErrorData : d.error = Undefined,
            error |-> AxiosError(Undefined, <<"Network Error">>)] }

\* error?.response?.data?.error
ResponseError(error) ==
    IF error.response = Undefined THEN Undefined ELSE error.response[1].data.error

\* error?.message
MessageOf(error) == IF error.message = <<>> THEN Undefined ELSE Some(error.message[1])

\* error?.response?.status
ResponseStatus(error) ==
    IF error.response = Undefined THEN Undefined ELSE Some(error.response[1].status)

----------------------------------------------------------------------------
(* Poll responses and their parsing *)

Utterance(speaker, start, end, text) ==
    [speaker |-> speaker, start |-> start, end |-> end, text |-> text]

UtterA == Utterance(Some("A"), Some(0), Some(1500), Some("hello there everyone"))

UtterB == Utterance(Some("B"), Some(1500), Some(4000), Some("yo"))

UtterBare == Utterance(Undefined, Undefined, Some(500), Undefined)

\* an utterance that ends 480 ms after the 12 whole seconds of audio_duration
UtterLate == Utterance(Some("A"), Some(11000), Some(12480), Some("see you"))

UtteranceLists ==
    {Undefined, Some(<<>>), Some(<<UtterA>>), Some(<<UtterA, UtterB, UtterBare>>),
     Some(<<UtterA, UtterLate>>)}

WordLists ==
    { Undefined, Some(<<>>),
      Some(<<Utterance(Some("A"), Some(0), Some(1000), Some("hi")),
             Utterance(Some("A"), Some(1000), Some(2000), Some("there")),
             Utterance(Undefined, Some(2000), Some(2500), Some("um")),
             Utterance(Some("B"), Some(2500), Some(3000), Some("yo"))>>),
      Some(<<Utterance(Undefined, Some(0), Some(700), Some("hm"))>>) }

PollStatuses == {Some("queued"), Some("processing"), Some("completed"), Some("error"),
                 Some("paused"), Undefined}

PollData(status, utterances, words, duration, error, statusText) ==
    [status |-> status, utterances |-> utterances, words |-> words,
     audio_duration |-> duration, error |-> error, status_text |-> statusText]

CompletedData ==
    { PollData(Some("completed"), u, w, d, Undefined, Undefined) :
        u \in UtteranceLists, w \in WordLists, d \in {Undefined, Some(0), Some(12)} }

ErrorData ==
    { PollData(Some("error"), Undefined, Undefined, Undefined, e, t) :
        e \in {Undefined, Some("Audio file could not be decoded")},
        t \in {Undefined, Some("failed")} }

PendingData ==
    { PollData(st, Undefined, Undefined, Undefined, Undefined, Undefined) :
        st \in PollStatuses \ {Some("completed"), Some("error")} }

\* what `await axios.get(...)` gives
PollSettlements ==
    { [rejected |-> FALSE, status |-> 200, data |-> d, error |-> AxiosError(Undefined, <<>>)] :
        d \in CompletedData \cup ErrorData \cup PendingData }
    \cup { [rejected |-> TRUE, status |-> 0, data |-> CHOOSE d \in PendingData : d.status = Undefined,
            error |-> e] :
             e \in { AxiosError(Undefined, <<"Network Error">>),
                     AxiosError(Undefined, <<>>),
                     AxiosError(Some([status |-> 500, data |-> [error |-> Some("Internal error")]]),
                                <<StatusMessage(500)>>),
                     AxiosError(Some([status |-> 404, data |-> [error |-> Undefined]]),
                                <<StatusMessage(404)>>),
                     AxiosError(Some([status |-> 429, data |-> [error |-> Some("Too many requests")]]),
                                <<>>) } }

\* the open utterance keeps the end of its first word
GroupStepKeepsEnd(st, word) ==
    IF ~Truthy(word.speaker) THEN st
    ELSE IF st.current = <<>> \/ st.current[1].speaker # word.speaker
    THEN [utterances |-> st.utterances \o st.current,
          current |-> <<Utterance(word.speaker, word.start, word.end, OrElse(word.text, Some("")))>>]
    ELSE LET cur == st.current[1]
         IN  [utterances |-> st.utterances,
              current |-> <<[cur EXCEPT !.text = Some(cur.text[1]
                                                       \o (IF cur.text[1] # "" THEN " " ELSE "")
                                                       \o OrElse(word.text, Some(""))[1])]>>]

\* one step of groupWordsBySpeaker's forEach (lines 750-771); st.current is the
\* open utterance, <<>> when there is none
GroupStep(st, word) ==
    IF ~Truthy(word.speaker) THEN st
    ELSE IF st.current = <<>> \/ st.current[1].speaker # word.speaker
    THEN [utterances |-> st.utterances \o st.current,
          current |-> <<Utterance(word.speaker, word.start, word.end, OrElse(word.text, Some("")))>>]
    ELSE LET cur == st.current[1]
         IN  [utterances |-> st.utterances,
              current |-> <<[cur EXCEPT !.end = word.end,
                                         !.text = Some(cur.text[1]
                                                       \o (IF cur.text[1] # "" THEN " " ELSE "")
                                                       \o OrElse(word.text, Some(""))[1])]>>]

RECURSIVE GroupFrom(_, _, _)
GroupFrom(words, i, st) ==
    IF i > Len(words) THEN st ELSE GroupFrom(words, i + 1, GroupStep(st, words[i]))

\* groupWordsBySpeaker (lines 742-779)
groupWordsBySpeaker(words) ==
    IF Len(words) = 0 THEN <<>>
    ELSE LET st == GroupFrom(words, 1, [utterances |-> <<>>, current |-> <<>>])
         IN  st.utterances \o st.current

\* x / 1000 of a number of milliseconds: seconds, kept exactly as thousandths
Div1000(ms) == [milli |-> ms]

\* x * 1000 of a number of seconds
Mul1000(sec) == sec.milli

SegmentOf(utterance) ==
    [speaker |-> IF utterance.speaker # Undefined THEN "Speaker " \o utterance.speaker[1]
                 ELSE "Speaker Unknown",
     start |-> Div1000(OrElseNum(utterance.start, Some(0))[1]),
     end |-> Div1000(OrElseNum(utterance.end, Some(0))[1]),
     text |-> OrElse(utterance.text, Some(""))[1]]

\* the map stops one utterance short
parseDropsLast(utterances) ==
    [i \in 1..(Len(utterances) - 1) |-> SegmentOf(utterances[i])]

\* parseDiarizationSegments (lines 618-647), for a non-empty list
parseDiarizationSegments(utterances) ==
    [i \in 1..Len(utterances) |-> SegmentOf(utterances[i])]

\* Math.max(...segments.map(s => s.end))
MaxEnd(segments) ==
    CHOOSE e \in {segments[i].end : i \in 1..Len(segments)} :
        \A i \in 1..Len(segments) : segments[i].end.milli <= e.milli

\* the words are grouped whenever there are any
UtterancesOfWordsFirst(data) ==
    IF data.words # Undefined /\ Len(data.words[1]) > 0
    THEN groupWordsBySpeaker(data.words[1])
    ELSE IF data.utterances # Undefined THEN data.utterances[1] ELSE <<>>

\* lines 528-542: the utterances of a completed response
UtterancesOf(data) ==
    LET utterances == IF data.utterances # Undefined THEN data.utterances[1] ELSE <<>>
    IN  IF Len(utterances) = 0 /\ data.words # Undefined
        THEN groupWordsBySpeaker(data.words[1])
        ELSE utterances

\* the segments are asked before the provider
AudioDurationSegmentsFirst(data, segments) ==
    IF Len(segments) > 0 THEN Mul1000(MaxEnd(segments))
    ELSE IF TruthyNum(data.audio_duration) THEN data.audio_duration[1] * 1000
    ELSE 0

\* lines 576-580
AudioDurationMs(data, segments) ==
    IF TruthyNum(data.audio_duration) THEN data.audio_duration[1] * 1000
    ELSE IF Len(segments) > 0 THEN Mul1000(MaxEnd(segments))
    ELSE 0

\* lines 450-457: what the invocation returns
ResultOf(segments, audioDurationMs) ==
    [segments |-> segments,
     audioDuration |-> IF audioDurationMs # 0 THEN audioDurationMs ELSE 0]

----------------------------------------------------------------------------
(* Control flow of the poll loop *)

\* the loop bound off by one: attempts <= maxAttempts
LoopContinuesInclusive(n) == n <= maxAttempts

\* line 476: while (attempts < maxAttempts)
LoopContinues(n) == n < maxAttempts

\* line 522
IsCompleted(status) == status = Some("completed")

\* the 'error' status is not recognised
IsErrorNever(status) == FALSE

\* every status that is not queued, processing or completed ends the run
IsErrorOrUnknown(status) ==
    status \notin {Some("queued"), Some("processing"), Some("completed")}

\* line 588
IsError(status) == status = Some("error")

\* status_text is preferred to the provider's error
ProviderMessageStatusTextFirst(data) ==
    OrElse(data.status_text, OrElse(data.error, Some("Unknown error occurred")))[1]

\* line 589
ProviderMessage(data) ==
    OrElse(data.error, OrElse(data.status_text, Some("Unknown error occurred")))[1]

\* line 420
SubmitErrorMessage(error) ==
    OrElse(ResponseError(error), OrElse(MessageOf(error), Some("Unknown error")))[1]

\* a failure without a response is swallowed and the loop goes on
PollCatchSwallowsNetwork(error) ==
    IF error.response = Undefined THEN Undefined ELSE Some(error)

\* every caught error is replaced by the poll's own error
PollCatchWraps(error) ==
    Some(CheckFailed(OrElse(MessageOf(error), Some("Unknown error"))[1]))

\* lines 602-609: what the catch block of the loop throws for a caught error
\* (<<>> would be a catch block that throws nothing, so that the loop goes on)
PollCatch(error) ==
    IF Truthy(ResponseError(error)) \/ Truthy(MessageOf(error))
    THEN Some(error)
    ELSE Some(CheckFailed(OrElse(MessageOf(error), Some("Unknown error"))[1]))

\* line 367: if (!uploadUrl) throw
MissingUploadUrl(url) == ~Truthy(url)

\* the job id is not checked
MissingTranscriptIdNever(id) == FALSE

\* line 438: if (!transcriptId) throw
MissingTranscriptId(id) == ~Truthy(id)

\* the submit names the upload endpoint instead of the uploaded file
SubmitBodyWrongUrl(url) ==
    [audio_url |-> apiUrl \o "/upload", speaker_labels |-> TRUE, language_detection |-> TRUE]

\* lines 394-398: the body of the submit request
SubmitBody(url) == [audio_url |-> url, speaker_labels |-> TRUE, language_detection |-> TRUE]

\* `${transcriptId}` in a template literal
IdText(id) == IF id = Undefined THEN "undefined" ELSE id[1]

\* lines 478, 488-495: the GET that polls a job
PollRequest(id) == Request("GET", PollEndpoint(IdText(id)), Undefined)

----------------------------------------------------------------------------
(* The invocation *)

\* a throw that leaves transcribeWithDiarization: the promise rejects
Throw(err) ==
    /\ pc' = "failed"
    /\ outcome' = Rejected(err)

\* a completed response without utterances is taken as it is
NoSpeechDetectedNever(utterances) == FALSE

\* line 555: if (utterances.length === 0) throw
NoSpeechDetected(utterances) == Len(utterances) = 0

\* line 481: the "request" event of a poll GET is logged on the first attempt
LogsPollRequest(n) == n = 0

\* every poll response is logged
LogsPollResponseAlways(n, status) == TRUE

\* line 506: "Only log on first attempt, completion, or error"
LogsPollResponse(n, status) ==
    n = 0 \/ status = Some("completed") \/ status = Some("error")

\* lines 322-405 for a given observer: the upload settled; on success the
\* submit POST is issued
UploadStep(obs, s) ==
    IF s.rejected THEN Fail(FailedToFetch, events)
    ELSE IF ~Ok(s.status)
    THEN LET errorText == UploadErrorText(s.body)
             logged == Notify(obs, events, Errored("POST", UploadEndpoint, Some(s.status)))
         IN  IF ~errorText.ok THEN Fail(errorText.error, events)
             ELSE IF Raises(obs) THEN Fail(ObserverError, logged)
             ELSE Fail(UploadFailed(ToString(s.status), errorText.value), logged)
    ELSE LET uploadData == ReadJson(s.body)
             logged == Notify(obs, events, Received("POST", UploadEndpoint, Some(s.status)))
         IN  IF ~uploadData.ok THEN Fail(uploadData.error, events)
             ELSE IF Raises(obs) THEN Fail(ObserverError, logged)
             ELSE IF MissingUploadUrl(uploadData.value.upload_url) THEN Fail(NoUploadUrl, logged)
             ELSE Go("submitting", Notify(obs, logged, Issued("POST", TranscriptEndpoint)),
                     Request("POST", TranscriptEndpoint, SubmitBody(uploadData.value.upload_url[1])))

\* lines 322-405: the upload settled
UploadSettles(s) ==
    /\ pc = "uploading"
    /\ response' = Some(s)
    /\ uploadUrl' = IF ~s.rejected /\ Ok(s.status) /\ ReadJson(s.body).ok
                    THEN ReadJson(s.body).value.upload_url
                    ELSE uploadUrl
    /\ Apply(UploadStep(Observer, s))
    /\ UNCHANGED <<apiKey, requestCallback, audioFile, transcriptId, attempts, apiInfo, nonTerminal>>
    /\ UNCHANGED <<recorderVars, callVars, concurrentVars, appVars>>

\* lines 602-609: an error thrown inside the loop's try block goes through its
\* catch block, which throws; a catch block that threw nothing would let the
\* loop go round again
ThrowInLoop(err, evs) ==
    LET thrown == PollCatch(err)
    IN  IF thrown # Undefined THEN Fail(thrown[1], evs)
        ELSE Go("polling", evs, PollRequest(transcriptId))

\* lines 407-495 for a given observer: the submit settled; on success
\* pollForCompletion issues its first GET. The observer is called inside the
\* try block (line 409), and again in its catch block (line 422)
SubmitStep(obs, s) ==
    IF s.rejected
    THEN LET logged == Notify(obs, events, Errored("POST", TranscriptEndpoint, ResponseStatus(s.error)))
         IN  IF Raises(obs) THEN Fail(ObserverError, logged)
             ELSE Fail(StartFailed(SubmitErrorMessage(s.error)), logged)
    ELSE LET logged == Notify(obs, events, Received("POST", TranscriptEndpoint, Some(s.status)))
         IN  IF Raises(obs)
             THEN Fail(ObserverError,
                       Notify(obs, logged, Errored("POST", TranscriptEndpoint, ResponseStatus(ObserverError))))
             ELSE IF MissingTranscriptId(s.data.id) THEN Fail(NoTranscriptId, logged)
             ELSE IF LogsPollRequest(0)
             THEN Go("polling", Notify(obs, logged, Issued("GET", PollEndpoint(IdText(s.data.id)))),
                     PollRequest(s.data.id))
             ELSE Go("polling", logged, PollRequest(s.data.id))

\* lines 407-495: the submit settled
SubmitSettles(s) ==
    /\ pc = "submitting"
    /\ response' = Some(s)
    /\ transcriptId' = IF s.rejected THEN transcriptId ELSE s.data.id
    /\ apiInfo' = IF s.rejected \/ MissingTranscriptId(s.data.id) THEN apiInfo
                  ELSE [apiInfo EXCEPT !.transcriptStatus = Some("queued")]
    /\ Apply(SubmitStep(Observer, s))
    /\ UNCHANGED <<apiKey, requestCallback, audioFile, uploadUrl, attempts, nonTerminal>>
    /\ UNCHANGED <<recorderVars, callVars, concurrentVars, appVars>>

\* lines 497-609 for a given observer: a poll GET settled
PollStep(obs, s) ==
    IF s.rejected THEN ThrowInLoop(s.error, events)
    ELSE LET status == s.data.status
             logs == LogsPollResponse(attempts, status)
             logged == IF logs
                       THEN Notify(obs, events, Received("GET", PollEndpoint(IdText(transcriptId)), Some(s.status)))
                       ELSE events
             utterances == UtterancesOf(s.data)
             segments == parseDiarizationSegments(utterances)
         IN  IF logs /\ Raises(obs) THEN ThrowInLoop(ObserverError, logged)
             ELSE IF IsCompleted(status)
             THEN IF NoSpeechDetected(utterances) THEN ThrowInLoop(NoSpeech, logged)
                  ELSE [pc |-> "done",
                        outcome |-> Fulfilled(ResultOf(segments, AudioDurationMs(s.data, segments))),
                        events |-> logged, request |-> Undefined]
             ELSE IF IsError(status)
             THEN ThrowInLoop(TranscriptionFailed(ProviderMessage(s.data)), logged)
             ELSE [pc |-> "sleeping", outcome |-> Pending, events |-> logged, request |-> Undefined]

\* lines 497-609: a poll GET settled
PollSettles(s) ==
    /\ pc = "polling"
    /\ response' = Some(s)
    /\ apiInfo' = IF s.rejected THEN apiInfo
                  ELSE [apiInfo EXCEPT !.transcriptStatus = s.data.status,
                                       !.pollAttempts = attempts + 1]
    /\ Apply(PollStep(Observer, s))
    /\ nonTerminal' = IF pc' = "sleeping" THEN nonTerminal + 1 ELSE nonTerminal
    /\ UNCHANGED <<apiKey, requestCallback, audioFile, uploadUrl, transcriptId, attempts>>
    /\ UNCHANGED <<recorderVars, callVars, concurrentVars, appVars>>

\* lines 600-601, 476-495, 612: the 5 s timer fires; the loop issues the next
\* GET or ends with the timeout
TimerFires ==
    /\ pc = "sleeping"
    /\ attempts' = attempts + 1
    /\ UNCHANGED <<apiKey, requestCallback, audioFile, uploadUrl, transcriptId,
                   apiInfo, response, nonTerminal>>
    /\ UNCHANGED <<recorderVars, callVars, concurrentVars, appVars>>
    /\ IF LoopContinues(attempts')
       THEN /\ pc' = "polling"
            /\ events' = IF LogsPollRequest(attempts')
                         THEN Notify(Observer, events, Issued("GET", PollEndpoint(IdText(transcriptId))))
                         ELSE events
            /\ Issue(PollRequest(transcriptId))
            /\ UNCHANGED outcome
       ELSE /\ Throw(Timeout)
            /\ UNCHANGED <<inflight, netLog, events>>

\* the invocation has settled and its caller has taken the result: the locals
\* of the finished call are gone and the service can be used again
Forget ==
    /\ pc \in {"done", "failed"}
    /\ pc' = "idle"
    /\ audioFile' = NoFile
    /\ uploadUrl' = Undefined
    /\ transcriptId' = Undefined
    /\ attempts' = 0
    /\ apiInfo' = NoInfo
    /\ inflight' = {}
    /\ netLog' = <<>>
    /\ events' = <<>>
    /\ response' = Undefined
    /\ nonTerminal' = 0
    /\ outcome' = Pending
    /\ UNCHANGED <<apiKey, requestCallback>>
    /\ UNCHANGED <<recorderVars, callVars, concurrentVars, appVars>>

Next ==
    \/ \E key \in {"", "key"} : setApiKey(key)
    \/ \E cb \in BOOLEAN : setRequestCallback(cb)
    \/ \E blob \in Blobs, fileName \in FileNameArgs :
          Transcribe(blob, fileName)
    \/ \E s \in UploadSettlements : UploadSettles(s)
    \/ \E s \in SubmitSettlements : SubmitSettles(s)
    \/ \E s \in PollSettlements : PollSettles(s)
    \/ TimerFires
    \/ Forget

Spec == Init /\ [][Next]_vars

----------------------------------------------------------------------------
(* Invocations of transcribeWithDiarization side by side on one service.    *)
(* uploadUrl, transcriptId and attempts are locals of the invocation (lines *)
(* 355, 436, 465), so each invocation has a record of its own in `runs`;    *)
(* the provider numbers the uploads and the jobs in the order in which it   *)
(* handles them and notes which invocation's request made each.             *)

\* how many invocations a behaviour makes
MaxRuns == 2

\* how many times the provider answers "processing" to an invocation
MaxProcessing == 1

\* the upload_url and the job id the provider hands out
UploadUrlOf(k) == "https://cdn.assemblyai.com/upload/" \o ToString(k)

JobIdOf(j) == "tr_" \o ToString(j)

\* what the provider transcribes from an audio
TranscriptOf(audio) ==
    IF audio = "first"
    THEN PollData(Some("completed"), Some(<<UtterA>>), Undefined, Some(2), Undefined, Undefined)
    ELSE PollData(Some("completed"), Some(<<UtterA, UtterB>>), Undefined, Some(4), Undefined, Undefined)

\* the job id polled is the one of the invocation made last
PollTargetShared(rs, r) == rs[Len(rs)].transcriptId

\* lines 447, 466, 478: pollForCompletion polls the transcriptId it was given
PollTarget(rs, r) == rs[r].transcriptId

\* lines 65-320: an invocation starts; after the validation it issues its upload
Invoke(audio) ==
    /\ Len(runs) < MaxRuns
    /\ LET blob == [isFile |-> FALSE, size |-> MinBlobSize, type |-> "audio/wav",
                    name |-> "talk.wav", headerIsWav |-> TRUE]
           err == PreflightError(apiKey, blob, Undefined)
       IN  runs' = Append(runs,
                [audio |-> audio, uploadUrl |-> Undefined, transcriptId |-> Undefined,
                 attempts |-> 0, answer |-> Undefined,
                 pc |-> IF err # Undefined THEN "failed" ELSE "uploading",
                 requests |-> IF err # Undefined THEN <<>>
                              ELSE <<Request("POST", UploadEndpoint, Some(audio))>>,
                 outcome |-> IF err # Undefined THEN Rejected(err[1]) ELSE Pending])
    /\ UNCHANGED <<provider, clientVars, recorderVars, callVars, appVars>>

\* the provider handles the request an invocation is waiting for and answers
Serve(r, processing) ==
    /\ r \in 1..Len(runs)
    /\ runs[r].pc \in {"uploading", "submitting", "polling"}
    /\ runs[r].answer = Undefined
    /\ LET request == runs[r].requests[Len(runs[r].requests)]
           answered(data) == [runs EXCEPT ![r].answer = Some(data)]
       IN  CASE runs[r].pc = "uploading" ->
                  /\ ~processing
                  /\ provider' = [provider EXCEPT
                                     !.uploads = Append(@, [audio |-> request.body[1], by |-> r])]
                  /\ runs' = answered([upload_url |-> Some(UploadUrlOf(Len(provider.uploads) + 1))])
            [] runs[r].pc = "submitting" ->
                  /\ ~processing
                  /\ \E k \in 1..Len(provider.uploads) :
                         /\ UploadUrlOf(k) = request.body[1].audio_url
                         /\ provider' = [provider EXCEPT !.jobs = Append(@, [upload |-> k, by |-> r])]
                  /\ runs' = answered([id |-> Some(JobIdOf(Len(provider.jobs) + 1)),
                                       status |-> Some("queued")])
            [] runs[r].pc = "polling" ->
                  /\ processing => runs[r].attempts < MaxProcessing
                  /\ \E j \in 1..Len(provider.jobs) :
                         /\ PollEndpoint(JobIdOf(j)) = request.url
                         /\ runs' = answered(
                                IF processing
                                THEN PollData(Some("processing"), Undefined, Undefined, Undefined,
                                              Undefined, Undefined)
                                ELSE TranscriptOf(provider.uploads[provider.jobs[j].upload].audio))
                  /\ UNCHANGED provider
    /\ UNCHANGED <<clientVars, recorderVars, callVars, appVars>>

\* lines 322-601: the awaited response reaches the invocation, which goes on
\* to its next request or returns
Receive(r) ==
    /\ r \in 1..Len(runs)
    /\ runs[r].answer # Undefined
    /\ LET run == runs[r]
           data == run.answer[1]
       IN  CASE run.pc = "uploading" ->
                  runs' = IF MissingUploadUrl(data.upload_url)
                          THEN [runs EXCEPT ![r].answer = Undefined, ![r].pc = "failed",
                                            ![r].outcome = Rejected(NoUploadUrl)]
                          ELSE [runs EXCEPT ![r].answer = Undefined, ![r].pc = "submitting",
                                            ![r].uploadUrl = data.upload_url,
                                            ![r].requests = Append(@,
                                                Request("POST", TranscriptEndpoint,
                                                        Some(SubmitBody(data.upload_url[1]))))]
            [] run.pc = "submitting" ->
                  runs' = IF MissingTranscriptId(data.id)
                          THEN [runs EXCEPT ![r].answer = Undefined, ![r].pc = "failed",
                                            ![r].outcome = Rejected(NoTranscriptId)]
                          ELSE LET next == [runs EXCEPT ![r].answer = Undefined,
                                                        ![r].pc = "polling",
                                                        ![r].transcriptId = data.id]
                               IN  [next EXCEPT ![r].requests =
                                        Append(@, PollRequest(PollTarget(next, r)))]
            [] run.pc = "polling" ->
                  runs' = IF IsCompleted(data.status)
                          THEN LET segments == parseDiarizationSegments(UtterancesOf(data))
                               IN  [runs EXCEPT ![r].answer = Undefined, ![r].pc = "done",
                                        ![r].outcome = Fulfilled(
                                            ResultOf(segments, AudioDurationMs(data, segments)))]
                          ELSE [runs EXCEPT ![r].answer = Undefined, ![r].pc = "sleeping"]
    /\ UNCHANGED <<provider, clientVars, recorderVars, callVars, appVars>>

\* lines 600-601, 476-495: the invocation's 5 s timer fires and it polls again
Wakes(r) ==
    /\ r \in 1..Len(runs)
    /\ runs[r].pc = "sleeping"
    /\ LET n == runs[r].attempts + 1
       IN  runs' = IF LoopContinues(n)
                   THEN [runs EXCEPT ![r].attempts = n, ![r].pc = "polling",
                            ![r].requests = Append(@, PollRequest(PollTarget(runs, r)))]
                   ELSE [runs EXCEPT ![r].attempts = n, ![r].pc = "failed",
                            ![r].outcome = Rejected(Timeout)]
    /\ UNCHANGED <<provider, clientVars, recorderVars, callVars, appVars>>

\* the credential is set once (lines 40-42), before or between the invocations
Configure ==
    /\ apiKey = ""
    /\ setApiKey("key")

NextConcurrent ==
    \/ Configure
    \/ \E audio \in {"first", "second"} : Invoke(audio)
    \/ \E r \in 1..MaxRuns, processing \in BOOLEAN : Serve(r, processing)
    \/ \E r \in 1..MaxRuns : Receive(r)
    \/ \E r \in 1..MaxRuns : Wakes(r)

SpecConcurrent == Init /\ [][NextConcurrent]_vars

----------------------------------------------------------------------------
(* AudioRecorderService (lines 814-1116).  startRecording is suspended at    *)
(* `await getUserMedia`; stopRecording installs its handlers and calls       *)
(* stop(), the browser then delivers dataavailable and stop in one task, and *)
(* the onstop handler is suspended at `await this.convertToWav`.             *)

\* how many startRecording and stopRecording calls a behaviour makes
MaxStarts == 2

MaxStops == 2

\* line 844: event.data.size of the chunk delivered when the recorder stops
ChunkSizes == {0, 2048}

\* line 852
MicrophoneFailed == Err("Error", <<"Failed to access microphone. Please check permissions.">>)

\* line 862
NoActiveRecording == Err("Error", <<"No active recording">>)

\* line 870
RecordingEmpty == Err("Error", <<"Recording is empty. Please record some audio.">>)

\* line 927
ConvertFailed(message) ==
    Err("Error", <<"Failed to convert audio to WAV format: ", message, ". Please try recording again.">>)

\* line 941: `Failed to process recording: ${error?.message}`
ProcessFailed(error) == Err("Error", <<"Failed to process recording: ">> \o error.message)

\* line 946
RecordingErrorOccurred == Err("Error", <<"Recording error occurred">>)

\* lines 956-1021: convertToWav returns the WAV blob or throws (decodeAudioData
\* rejects, or one of its own checks fails)
WavBlob == [type |-> "audio/wav", wav |-> TRUE]

ConversionResults ==
    {[ok |-> TRUE, message |-> ""],
     [ok |-> FALSE, message |-> "Unable to decode audio data"],
     [ok |-> FALSE, message |-> "Decoded audio buffer is empty"]}

\* resolve / reject of a promise that may have settled already
SettleCall(calls, k, promise) ==
    IF calls[k].promise = Pending THEN [calls EXCEPT ![k].promise = promise] ELSE calls

\* line 823: startRecording is called and waits for getUserMedia
startRecording ==
    /\ startCalls + Len(streams) < MaxStarts
    /\ startCalls' = startCalls + 1
    /\ UNCHANGED <<mediaRecorder, audioChunks, stream, recorders, streams, stopCalls, conversions>>
    /\ UNCHANGED <<clientVars, callVars, concurrentVars, appVars>>

\* lines 825-849: getUserMedia resolved with a stream; recording starts
MediaGranted ==
    /\ startCalls > 0
    /\ startCalls' = startCalls - 1
    /\ streams' = Append(streams, TRUE)
    /\ stream' = Some(Len(streams) + 1)
    /\ audioChunks' = <<>>
    /\ recorders' = Append(recorders, [stream |-> Len(streams) + 1, state |-> "recording",
                                       onstop |-> Undefined, stopping |-> FALSE])
    /\ mediaRecorder' = Some(Len(recorders) + 1)
    /\ UNCHANGED <<stopCalls, conversions>>
    /\ UNCHANGED <<clientVars, callVars, concurrentVars, appVars>>

\* lines 850-853: getUserMedia rejected; startRecording throws MicrophoneFailed
MediaDenied ==
    /\ startCalls > 0
    /\ startCalls' = startCalls - 1
    /\ UNCHANGED <<mediaRecorder, audioChunks, stream, recorders, streams, stopCalls, conversions>>
    /\ UNCHANGED <<clientVars, callVars, concurrentVars, appVars>>

\* lines 859-951: stopRecording is called.  stop() on a recorder that is not
\* recording has no further effect: it throws inside the async executor or
\* returns, and no stop event follows
stopRecording ==
    /\ Len(stopCalls) < MaxStops
    /\ IF mediaRecorder = Undefined
       THEN /\ stopCalls' = Append(stopCalls, [promise |-> Rejected(NoActiveRecording),
                                               recorder |-> Undefined])
            /\ UNCHANGED recorders
       ELSE LET i == mediaRecorder[1]
            IN  /\ stopCalls' = Append(stopCalls, [promise |-> Pending, recorder |-> Some(i)])
                /\ recorders' = [recorders EXCEPT
                                    ![i].onstop = Some(Len(stopCalls) + 1),
                                    ![i].stopping = (@ \/ recorders[i].state = "recording"),
                                    ![i].state = "inactive"]
    /\ UNCHANGED <<mediaRecorder, audioChunks, stream, streams, startCalls, conversions>>
    /\ UNCHANGED <<clientVars, callVars, concurrentVars, appVars>>

\* lines 843-847, 866-889: the recorder delivers its data and stops; the onstop
\* handler rejects an empty recording or starts the conversion
RecorderStops(i, size) ==
    /\ i \in 1..Len(recorders)
    /\ recorders[i].stopping
    /\ recorders' = [recorders EXCEPT ![i].stopping = FALSE]
    /\ audioChunks' = IF size > 0 THEN Append(audioChunks, size) ELSE audioChunks
    /\ IF Len(audioChunks') = 0
       THEN /\ stopCalls' = SettleCall(stopCalls, recorders[i].onstop[1], Rejected(RecordingEmpty))
            /\ UNCHANGED conversions
       ELSE /\ conversions' = conversions \cup {[call |-> recorders[i].onstop[1], recorder |-> i]}
            /\ UNCHANGED stopCalls
    /\ UNCHANGED <<mediaRecorder, stream, streams, startCalls>>
    /\ UNCHANGED <<clientVars, callVars, concurrentVars, appVars>>

\* lines 889-942: convertToWav settled; on success the stream is released,
\* the fields are cleared and the promise resolves
ConvertSettles(c, result) ==
    /\ c \in conversions
    /\ conversions' = conversions \ {c}
    /\ IF result.ok
       THEN /\ streams' = IF stream # Undefined THEN [streams EXCEPT ![stream[1]] = FALSE]
                          ELSE streams
            /\ stream' = Undefined
            /\ mediaRecorder' = Undefined
            /\ audioChunks' = <<>>
            /\ stopCalls' = SettleCall(stopCalls, c.call, Fulfilled(WavBlob))
       ELSE /\ stopCalls' = SettleCall(stopCalls, c.call,
                                       Rejected(ProcessFailed(ConvertFailed(result.message))))
            /\ UNCHANGED <<mediaRecorder, audioChunks, stream, streams>>
    /\ UNCHANGED <<recorders, startCalls>>
    /\ UNCHANGED <<clientVars, callVars, concurrentVars, appVars>>

\* lines 945-947: the recorder reports an error while it is stopping
RecorderError(i) ==
    /\ i \in 1..Len(recorders)
    /\ recorders[i].stopping
    /\ stopCalls' = SettleCall(stopCalls, recorders[i].onstop[1], Rejected(RecordingErrorOccurred))
    /\ UNCHANGED <<mediaRecorder, audioChunks, stream, recorders, streams, startCalls, conversions>>
    /\ UNCHANGED <<clientVars, callVars, concurrentVars, appVars>>

NextRecorder ==
    \/ startRecording
    \/ MediaGranted
    \/ MediaDenied
    \/ stopRecording
    \/ \E i \in 1..MaxStarts, size \in ChunkSizes : RecorderStops(i, size)
    \/ \E c \in conversions, result \in ConversionResults : ConvertSettles(c, result)
    \/ \E i \in 1..MaxStarts : RecorderError(i)

SpecRecorder == Init /\ [][NextRecorder]_vars


\* the browser delivers the stop event of every recorder that was stopped
\* (line 866 is then run), and every decodeAudioData call settles (line 889)
RecorderFairness ==
    /\ \A i \in 1..MaxStarts : WF_vars(\E size \in ChunkSizes : RecorderStops(i, size))
    /\ \A k \in 1..MaxStops, i \in 1..MaxStarts :
           WF_vars(\E result \in ConversionResults :
                       ConvertSettles([call |-> k, recorder |-> i], result))

SpecRecorderFair == SpecRecorder /\ RecorderFairness

----------------------------------------------------------------------------
(* The App component (src/components/SpeakerStats.tsx lines 364-734) and    *)
(* HistoryService (src/unnamed/part_000).  A file is uploaded and processed; *)
(* the transcript id of the i-th processAudio call is i.  After every        *)
(* handler React renders and runs the auto-save effect (lines 436-451).      *)

\* the uploads made in one behaviour
MaxTranscripts == 2

\* the items the auto-save effect adds in one behaviour
MaxSaves == 3

\* the names an item is renamed to
NewNames == {"Standup"}

\* the speakers and the duration processAudio computes for transcript t
SpeakersOf(t) == IF t = 1 THEN <<"A">> ELSE <<"A", "B">>

DurationOf(t) == t * 1000

\* part_000 line 17: items.sort((a, b) => b.timestamp - a.timestamp)
RECURSIVE SortNewestFirst(_)
SortNewestFirst(items) ==
    IF items = <<>> THEN <<>>
    ELSE LET newest == CHOOSE i \in DOMAIN items :
                           /\ \A j \in DOMAIN items : items[j].timestamp <= items[i].timestamp
                           /\ \A j \in 1..(i - 1) : items[j].timestamp < items[i].timestamp
         IN  <<items[newest]>>
                 \o SortNewestFirst(SubSeq(items, 1, newest - 1)
                                        \o SubSeq(items, newest + 1, Len(items)))

\* part_000 lines 9-22
getHistory(stored) == SortNewestFirst(stored)

\* part_000 lines 27-36: unshift on the sorted list, then setItem
addHistoryItem(stored, item) == <<item>> \o getHistory(stored)

\* part_000 lines 41-53
updateHistoryItem(stored, id, name) ==
    LET sorted == getHistory(stored)
    IN  IF \E k \in DOMAIN sorted : sorted[k].id = id
        THEN [k \in DOMAIN sorted |->
                 IF k = (CHOOSE m \in DOMAIN sorted :
                             sorted[m].id = id /\ \A n \in 1..(m - 1) : sorted[n].id # id)
                 THEN [sorted[k] EXCEPT !.name = name] ELSE sorted[k]]
        ELSE stored

\* part_000 lines 58-67
deleteHistoryItem(stored, id) ==
    SelectSeq(getHistory(stored), LAMBDA item : item.id # id)

\* SpeakerStats.tsx lines 437-443: the condition of the auto-save effect
AutoSaveDue(rs, cur, last) ==
    /\ ~rs.isProcessing
    /\ Len(rs.speakers) > 0
    /\ rs.apiInfo # Undefined
    /\ cur = Undefined
    /\ Some(rs.apiInfo[1].transcriptId) # last

\* SpeakerStats.tsx lines 436-451 and 681-700: the render after a handler set
\* the hooks to rs, cur, last and hist; the effect saves when it is due
Render(rs, cur, last, stored, hist, loaded) ==
    IF AutoSaveDue(rs, cur, last)
    THEN LET historyItem == [id |-> Len(autoSaved) + 1,
                             name |-> "Recording",
                             transcriptId |-> rs.apiInfo[1].transcriptId,
                             timestamp |-> Len(autoSaved) + 1,
                             speakers |-> rs.speakers,
                             duration |-> rs.duration,
                             apiInfo |-> rs.apiInfo[1]]
         IN  /\ Len(autoSaved) < MaxSaves
             /\ recordingState' = rs
             /\ localStorage' = addHistoryItem(stored, historyItem)
             /\ history' = getHistory(localStorage')
             /\ currentHistoryId' = Some(historyItem.id)
             /\ lastSavedTranscriptId' = Some(historyItem.transcriptId)
             /\ loadedFromHistory' = loaded
             /\ autoSaved' = Append(autoSaved, [transcriptId |-> historyItem.transcriptId,
                                                loaded |-> loaded])
    ELSE /\ recordingState' = rs
         /\ localStorage' = stored
         /\ history' = hist
         /\ currentHistoryId' = cur
         /\ lastSavedTranscriptId' = last
         /\ loadedFromHistory' = loaded
         /\ UNCHANGED autoSaved

\* SpeakerStats.tsx lines 526-569 and RecordingControls.tsx line 92
handleFileUpload ==
    /\ ~recordingState.isRecording
    /\ ~recordingState.isProcessing
    /\ Len(transcribing) < MaxTranscripts
    /\ transcribing' = Append(transcribing, "pending")
    /\ Render([recordingState EXCEPT !.error = Undefined, !.isProcessing = TRUE,
                                     !.speakers = <<>>, !.duration = 0,
                                     !.apiInfo = Undefined],
              Undefined, lastSavedTranscriptId, localStorage, history, FALSE)
    /\ UNCHANGED <<clientVars, recorderVars, callVars, concurrentVars>>

\* SpeakerStats.tsx lines 391-396: the service reports the transcript of call i
ApiInfoReported(i) ==
    /\ i \in DOMAIN transcribing
    /\ transcribing[i] = "pending"
    /\ Render([recordingState EXCEPT !.apiInfo = Some([transcriptId |-> i])],
              currentHistoryId, lastSavedTranscriptId, localStorage, history,
              loadedFromHistory)
    /\ UNCHANGED <<transcribing, clientVars, recorderVars, callVars, concurrentVars>>

\* SpeakerStats.tsx lines 571-630: call i of processAudio got its segments
processAudioCompleted(i) ==
    /\ i \in DOMAIN transcribing
    /\ transcribing[i] = "pending"
    /\ transcribing' = [transcribing EXCEPT ![i] = "settled"]
    /\ Render([recordingState EXCEPT !.speakers = SpeakersOf(i), !.isProcessing = FALSE,
                                     !.duration = DurationOf(i), !.error = Undefined],
              currentHistoryId, lastSavedTranscriptId, localStorage, history, FALSE)
    /\ UNCHANGED <<clientVars, recorderVars, callVars, concurrentVars>>

\* SpeakerStats.tsx lines 631-649: call i of processAudio caught an error
processAudioFailed(i) ==
    /\ i \in DOMAIN transcribing
    /\ transcribing[i] = "pending"
    /\ transcribing' = [transcribing EXCEPT ![i] = "settled"]
    /\ Render([recordingState EXCEPT !.isProcessing = FALSE, !.error = Some("failed")],
              currentHistoryId, lastSavedTranscriptId, localStorage, history,
              loadedFromHistory)
    /\ UNCHANGED <<clientVars, recorderVars, callVars, concurrentVars>>

\* SpeakerStats.tsx lines 652-668
ResetState ==
    [isRecording |-> FALSE, isProcessing |-> FALSE, duration |-> 0,
     speakers |-> <<>>, error |-> Undefined, apiInfo |-> Undefined]

\* SpeakerStats.tsx lines 652-668 and RecordingControls.tsx line 146
reset ==
    /\ ~recordingState.isRecording
    /\ ~recordingState.isProcessing
    /\ recordingState.duration > 0
    /\ Render(ResetState, Undefined, Undefined, localStorage, history, FALSE)
    /\ UNCHANGED <<transcribing, clientVars, recorderVars, callVars, concurrentVars>>

\* SpeakerStats.tsx lines 702-712
handleLoadHistoryItem(k) ==
    /\ k \in DOMAIN history
    /\ Render([isRecording |-> FALSE, isProcessing |-> FALSE,
               duration |-> history[k].duration, speakers |-> history[k].speakers,
               error |-> Undefined, apiInfo |-> Some(history[k].apiInfo)],
              Some(history[k].id), lastSavedTranscriptId, localStorage, history, TRUE)
    /\ UNCHANGED <<transcribing, clientVars, recorderVars, callVars, concurrentVars>>

\* SpeakerStats.tsx lines 714-717
handleRenameHistoryItem(k, newName) ==
    /\ k \in DOMAIN history
    /\ LET stored == updateHistoryItem(localStorage, history[k].id, newName)
       IN  Render(recordingState, currentHistoryId, lastSavedTranscriptId,
                  stored, getHistory(stored), loadedFromHistory)
    /\ UNCHANGED <<transcribing, clientVars, recorderVars, callVars, concurrentVars>>

\* SpeakerStats.tsx lines 719-728
handleDeleteHistoryItem(k) ==
    /\ k \in DOMAIN history
    /\ LET stored == deleteHistoryItem(localStorage, history[k].id)
       IN  IF currentHistoryId = Some(history[k].id)
           THEN Render(ResetState, Undefined, Undefined, stored, getHistory(stored), FALSE)
           ELSE Render(recordingState, currentHistoryId, lastSavedTranscriptId,
                       stored, getHistory(stored), loadedFromHistory)
    /\ UNCHANGED <<transcribing, clientVars, recorderVars, callVars, concurrentVars>>

\* SpeakerStats.tsx lines 730-734 and History.tsx lines 82-87
handleClearHistory ==
    /\ Len(history) > 0
    /\ Render(recordingState, Undefined, lastSavedTranscriptId, <<>>, <<>>,
              loadedFromHistory)
    /\ UNCHANGED <<transcribing, clientVars, recorderVars, callVars, concurrentVars>>

NextApp ==
    \/ handleFileUpload
    \/ \E i \in 1..MaxTranscripts : ApiInfoReported(i)
    \/ \E i \in 1..MaxTranscripts : processAudioCompleted(i)
    \/ \E i \in 1..MaxTranscripts : processAudioFailed(i)
    \/ reset
    \/ \E k \in 1..MaxSaves : handleLoadHistoryItem(k)
    \/ \E k \in 1..MaxSaves, newName \in NewNames : handleRenameHistoryItem(k, newName)
    \/ \E k \in 1..MaxSaves : handleDeleteHistoryItem(k)
    \/ handleClearHistory

SpecApp == Init /\ [][NextApp]_vars

----------------------------------------------------------------------------
(* calculateSpeakerStats (lines 653-737).  Times of segments are seconds,    *)
(* kept as thousandths; speaking times and durations are milliseconds.  A    *)
(* percentage is the exact fraction num / den.                               *)

\* String.prototype.trim, for the blanks the inputs contain
RECURSIVE TrimStart(_)
TrimStart(s) ==
    IF Len(s) > 0 /\ SubSeq(s, 1, 1) = " " THEN TrimStart(SubSeq(s, 2, Len(s))) ELSE s

RECURSIVE TrimEnd(_)
TrimEnd(s) ==
    IF Len(s) > 0 /\ SubSeq(s, Len(s), Len(s)) = " " THEN TrimEnd(SubSeq(s, 1, Len(s) - 1)) ELSE s

Trim(s) == TrimEnd(TrimStart(s))

\* line 666: a text shorter than this (trimmed) is not kept as a phrase
MinPhraseLength == 10

\* a list of two phrases gets a middle one too
extractSpeechExamplesMiddleOfTwo(texts) ==
    IF Len(texts) = 0 THEN <<>>
    ELSE LET examples == <<texts[1]>>
                         \o (IF Len(texts) > 1 THEN <<texts[(Len(texts) \div 2) + 1]>> ELSE <<>>)
                         \o (IF Len(texts) > 1 THEN <<texts[Len(texts)]>> ELSE <<>>)
         IN  SubSeq(examples, 1, IF Len(examples) < 3 THEN Len(examples) ELSE 3)

\* the middle phrase of an even count is the one before the half
extractSpeechExamplesLowerMiddle(texts) ==
    IF Len(texts) = 0 THEN <<>>
    ELSE LET examples == <<texts[1]>>
                         \o (IF Len(texts) > 2 THEN <<texts[((Len(texts) - 1) \div 2) + 1]>> ELSE <<>>)
                         \o (IF Len(texts) > 1 THEN <<texts[Len(texts)]>> ELSE <<>>)
         IN  SubSeq(examples, 1, IF Len(examples) < 3 THEN Len(examples) ELSE 3)

\* lines 785-808
extractSpeechExamples(texts) ==
    IF Len(texts) = 0 THEN <<>>
    ELSE LET examples == <<texts[1]>>
                         \o (IF Len(texts) > 2 THEN <<texts[(Len(texts) \div 2) + 1]>> ELSE <<>>)
                         \o (IF Len(texts) > 1 THEN <<texts[Len(texts)]>> ELSE <<>>)
         IN  SubSeq(examples, 1, IF Len(examples) < 3 THEN Len(examples) ELSE 3)

\* speakerMap.get(label): the place of the label in the map, 0 if it has none
EntryOf(map, label) ==
    IF \E i \in 1..Len(map) : map[i].label = label
    THEN CHOOSE i \in 1..Len(map) : map[i].label = label
    ELSE 0

\* a text is kept only when it is longer than MinPhraseLength
AddSegmentStrict(map, segment) ==
    LET duration == segment.end.milli - segment.start.milli
        i == EntryOf(map, segment.speaker)
        current == IF i # 0 THEN map[i] ELSE [label |-> segment.speaker, time |-> 0, texts |-> <<>>]
        texts == IF segment.text # "" /\ Len(Trim(segment.text)) > MinPhraseLength
                 THEN Append(current.texts, Trim(segment.text))
                 ELSE current.texts
        entry == [label |-> segment.speaker, time |-> current.time + duration, texts |-> texts]
    IN  IF i # 0 THEN [map EXCEPT ![i] = entry] ELSE Append(map, entry)

\* lines 659-674: one segment is added to speakerMap, which keeps its keys in
\* the order of their first insertion
AddSegment(map, segment) ==
    LET duration == segment.end.milli - segment.start.milli
        i == EntryOf(map, segment.speaker)
        current == IF i # 0 THEN map[i] ELSE [label |-> segment.speaker, time |-> 0, texts |-> <<>>]
        texts == IF segment.text # "" /\ Len(Trim(segment.text)) >= MinPhraseLength
                 THEN Append(current.texts, Trim(segment.text))
                 ELSE current.texts
        entry == [label |-> segment.speaker, time |-> current.time + duration, texts |-> texts]
    IN  IF i # 0 THEN [map EXCEPT ![i] = entry] ELSE Append(map, entry)

RECURSIVE SpeakerMapFrom(_, _, _)
SpeakerMapFrom(map, segments, i) ==
    IF i > Len(segments) THEN map
    ELSE SpeakerMapFrom(AddSegment(map, segments[i]), segments, i + 1)

\* lines 656-674
SpeakerMapOf(segments) == SpeakerMapFrom(<<>>, segments, 1)

\* lines 679-682
RECURSIVE TotalSpeakingTime(_)
TotalSpeakingTime(map) ==
    IF map = <<>> THEN 0 ELSE map[1].time + TotalSpeakingTime(Tail(map))

\* the end of the last segment is taken instead of the greatest
LastSegmentEnd(segments) == segments[Len(segments)].end

\* line 690: Math.max(...segments.map(s => s.end))
MaxSegmentEnd(segments) ==
    CHOOSE e \in {segments[i].end : i \in 1..Len(segments)} :
        \A i \in 1..Len(segments) : segments[i].end.milli <= e.milli

\* the override is not looked at
TotalDurationIgnoresOverride(segments, totalAudioDuration) ==
    IF Len(segments) > 0 THEN Mul1000(MaxSegmentEnd(segments))
    ELSE TotalSpeakingTime(SpeakerMapOf(segments))

\* lines 688-694
TotalDurationOf(segments, totalAudioDuration) ==
    LET given == OrElseNum(totalAudioDuration, Some(0))[1]
        fromEnd == IF given = 0 /\ Len(segments) > 0 THEN Mul1000(MaxSegmentEnd(segments)) ELSE given
    IN  IF fromEnd = 0 THEN TotalSpeakingTime(SpeakerMapOf(segments)) ELSE fromEnd

\* the division is not guarded: x / 0 has no finite value (den = 0)
PercentageUnguarded(time, total) == [num |-> time * 100, den |-> total]

\* lines 713-715
Percentage(time, total) ==
    IF total > 0 THEN [num |-> time * 100, den |-> total] ELSE [num |-> 0, den |-> 1]

\* lines 704-726: the Speaker made from the entry at place i of the map
SpeakerOf(map, i, total) ==
    [id |-> "speaker-" \o ToString(i - 1),
     label |-> map[i].label,
     speakingTime |-> map[i].time,
     percentage |-> Percentage(map[i].time, total),
     speechExamples |-> extractSpeechExamples(map[i].texts),
     allPhrases |-> map[i].texts]

\* a speaker goes before those that speak just as long
RECURSIVE InsertSpeakerBeforeEqual(_, _)
InsertSpeakerBeforeEqual(sorted, speaker) ==
    IF sorted = <<>> THEN <<speaker>>
    ELSE IF sorted[Len(sorted)].speakingTime > speaker.speakingTime THEN Append(sorted, speaker)
    ELSE Append(InsertSpeakerBeforeEqual(SubSeq(sorted, 1, Len(sorted) - 1), speaker),
                sorted[Len(sorted)])

\* line 730: Array.prototype.sort with (a, b) => b.speakingTime - a.speakingTime
\* is stable: a speaker goes behind those that speak at least as long
RECURSIVE InsertSpeaker(_, _)
InsertSpeaker(sorted, speaker) ==
    IF sorted = <<>> THEN <<speaker>>
    ELSE IF sorted[Len(sorted)].speakingTime >= speaker.speakingTime THEN Append(sorted, speaker)
    ELSE Append(InsertSpeaker(SubSeq(sorted, 1, Len(sorted) - 1), speaker), sorted[Len(sorted)])

RECURSIVE SortSpeakers(_, _)
SortSpeakers(speakers, n) ==
    IF n = 0 THEN <<>> ELSE InsertSpeaker(SortSpeakers(speakers, n - 1), speakers[n])

\* lines 653-737
calculateSpeakerStats(segments, totalAudioDuration) ==
    LET map == SpeakerMapOf(segments)
        total == TotalDurationOf(segments, totalAudioDuration)
        speakers == [i \in 1..Len(map) |-> SpeakerOf(map, i, total)]
    IN  [speakers |-> SortSpeakers(speakers, Len(speakers)), totalDuration |-> total]

\* The segments a call is given: at most MaxSegments of them
MaxSegments == 3

SegmentTexts == {"yo", "  hello there everyone "}

SegmentPool ==
    {[speaker |-> "Speaker " \o s, start |-> Div1000(se[1]), end |-> Div1000(se[2]), text |-> text] :
        s \in {"A", "B"}, se \in {<<0, 1000>>, <<500, 2000>>, <<2000, 3000>>},
        text \in SegmentTexts}

SeqsUpTo(S, n) == UNION {[1..k -> S] : k \in 0..n}

\* segments without length at the start of the audio, and segments whose
\* trimmed text is one character short of MinPhraseLength or just as long
EdgeSegments ==
    {[speaker |-> "Speaker " \o s, start |-> Div1000(0), end |-> Div1000(0), text |-> "yo"] :
        s \in {"A", "B"}}
    \cup {[speaker |-> "Speaker A", start |-> Div1000(0), end |-> Div1000(1000), text |-> text] :
        text \in {"  nine char  ", " ten chars. "}}

\* the segments and the total-duration override (in ms) of a call
StatsInputs ==
    {[segments |-> segs, totalAudioDuration |-> d] :
        segs \in SeqsUpTo(SegmentPool, MaxSegments) \cup SeqsUpTo(EdgeSegments, MaxSegments),
        d \in {Undefined, Some(0), Some(1500), Some(5000)}}

InitStats ==
    /\ ClientInit
    /\ RecorderInit
    /\ ConcurrentInit
    /\ AppInit
    /\ args \in StatsInputs
    /\ returned = Undefined

\* calculateSpeakerStats is called with the arguments and returns
CallStats ==
    /\ returned = Undefined
    /\ returned' = Some(calculateSpeakerStats(args.segments, args.totalAudioDuration))
    /\ UNCHANGED <<args, clientVars, recorderVars, concurrentVars, appVars>>

SpecStats == InitStats /\ [][CallStats]_vars

----------------------------------------------------------------------------
(* groupWordsBySpeaker (lines 742-779) called on its own *)

\* how many words a call is given
MaxWords == 3

\* the words of a call: each has a speaker tag (or none) and a text (or
\* none), and the word at place i lasts from i - 1 to i
WordInputs ==
    {[i \in 1..Len(ws) |-> Utterance(ws[i].speaker, Some(i - 1), Some(i), ws[i].text)] :
        ws \in SeqsUpTo({[speaker |-> s, text |-> x] :
                            s \in {Undefined, Some("A"), Some("B")},
                            x \in {Undefined, Some(""), Some("hi"), Some("there"), Some("yo")}},
                        MaxWords)}

InitWords ==
    /\ ClientInit
    /\ RecorderInit
    /\ ConcurrentInit
    /\ AppInit
    /\ args \in {[words |-> ws] : ws \in WordInputs}
    /\ returned = Undefined

\* groupWordsBySpeaker is called with the words and returns
CallWords ==
    /\ returned = Undefined
    /\ returned' = Some(groupWordsBySpeaker(args.words))
    /\ UNCHANGED <<args, clientVars, recorderVars, concurrentVars, appVars>>

SpecWords == InitWords /\ [][CallWords]_vars

----------------------------------------------------------------------------
(* extractSpeechExamples (lines 785-808) called on its own *)

\* how many phrases a call is given
MaxPhrases == 4

InitExamples ==
    /\ ClientInit
    /\ RecorderInit
    /\ ConcurrentInit
    /\ AppInit
    /\ args \in {[texts |-> texts] : texts \in SeqsUpTo({"a", "b", "c", "d"}, MaxPhrases)}
    /\ returned = Undefined

\* extractSpeechExamples is called with the phrases and returns
CallExamples ==
    /\ returned = Undefined
    /\ returned' = Some(extractSpeechExamples(args.texts))
    /\ UNCHANGED <<args, clientVars, recorderVars, concurrentVars, appVars>>

SpecExamples == InitExamples /\ [][CallExamples]_vars

----------------------------------------------------------------------------
(* audioBufferToWav (lines 1026-1086).  An ArrayBuffer is the sequence of its *)
(* bytes (the byte at offset k is at place k + 1).  A float sample is the     *)
(* exact fraction num / den with den a power of two, as a float is.           *)

\* lines 1039-1043: the char codes writeString puts at consecutive offsets
writeString(string) ==
    [i \in 1..Len(string) |->
        CASE SubSeq(string, i, i) = "R" -> 82
          [] SubSeq(string, i, i) = "I" -> 73
          [] SubSeq(string, i, i) = "F" -> 70
          [] SubSeq(string, i, i) = "W" -> 87
          [] SubSeq(string, i, i) = "A" -> 65
          [] SubSeq(string, i, i) = "V" -> 86
          [] SubSeq(string, i, i) = "E" -> 69
          [] SubSeq(string, i, i) = "f" -> 102
          [] SubSeq(string, i, i) = "m" -> 109
          [] SubSeq(string, i, i) = "t" -> 116
          [] SubSeq(string, i, i) = " " -> 32
          [] SubSeq(string, i, i) = "d" -> 100
          [] SubSeq(string, i, i) = "a" -> 97]

\* the bytes are written highest first
setUintBigEndian(value, width) ==
    [k \in 1..width |-> (value \div (256 ^ (width - k))) % 256]

\* DataView.setUint16 / setUint32 / setInt16 with littleEndian = true: the
\* value modulo 2 ^ (8 x width), in two's complement, lowest byte first
setUint(value, width) ==
    [k \in 1..width |-> (value \div (256 ^ (k - 1))) % 256]

\* both signs are scaled by 32767
QuantizeSymmetric(sample) ==
    LET clamped == IF sample.num > sample.den THEN [num |-> 1, den |-> 1]
                   ELSE IF sample.num < -sample.den THEN [num |-> -1, den |-> 1]
                   ELSE sample
        round(scale) == (2 * clamped.num * scale + clamped.den) \div (2 * clamped.den)
    IN  IF clamped.num < 0
        THEN (IF round(32767) < -32768 THEN -32768 ELSE round(32767))
        ELSE (IF round(32767) > 32767 THEN 32767 ELSE round(32767))

\* both signs are scaled by 32768
QuantizeBy32768(sample) ==
    LET clamped == IF sample.num > sample.den THEN [num |-> 1, den |-> 1]
                   ELSE IF sample.num < -sample.den THEN [num |-> -1, den |-> 1]
                   ELSE sample
        round(scale) == (2 * clamped.num * scale + clamped.den) \div (2 * clamped.den)
    IN  IF clamped.num < 0
        THEN (IF round(32768) < -32768 THEN -32768 ELSE round(32768))
        ELSE (IF round(32768) > 32767 THEN 32767 ELSE round(32768))

\* lines 1064-1068: the sample is clamped to [-1, 1], scaled and rounded by
\* Math.round (the nearest integer, a half goes up)
Quantize(sample) ==
    LET clamped == IF sample.num > sample.den THEN [num |-> 1, den |-> 1]
                   ELSE IF sample.num < -sample.den THEN [num |-> -1, den |-> 1]
                   ELSE sample
        round(scale) == (2 * clamped.num * scale + clamped.den) \div (2 * clamped.den)
    IN  IF clamped.num < 0
        THEN (IF round(32768) < -32768 THEN -32768 ELSE round(32768))
        ELSE (IF round(32767) > 32767 THEN 32767 ELSE round(32767))

\* lines 1026-1086: the writes of the DataView, each an offset and the bytes
\* put there, on a zero-filled buffer of bufferSize bytes
audioBufferToWav(buffer) ==
    LET length == buffer.length
        numberOfChannels == buffer.numberOfChannels
        sampleRate == buffer.sampleRate
        bytesPerSample == 2
        blockAlign == numberOfChannels * bytesPerSample
        byteRate == sampleRate * blockAlign
        dataSize == length * blockAlign
        bufferSize == 44 + dataSize
        header == << <<0, writeString("RIFF")>>,
                     <<4, setUint(bufferSize - 8, 4)>>,
                     <<8, writeString("WAVE")>>,
                     <<12, writeString("fmt ")>>,
                     <<16, setUint(16, 4)>>,
                     <<20, setUint(1, 2)>>,
                     <<22, setUint(numberOfChannels, 2)>>,
                     <<24, setUint(sampleRate, 4)>>,
                     <<28, setUint(byteRate, 4)>>,
                     <<32, setUint(blockAlign, 2)>>,
                     <<34, setUint(16, 2)>>,
                     <<36, writeString("data")>>,
                     <<40, setUint(dataSize, 4)>> >>
        \* the k-th pass of the inner loop: frame i, channel `channel`
        samples == [k \in 1..(length * numberOfChannels) |->
                       LET i == (k - 1) \div numberOfChannels
                           channel == (k - 1) % numberOfChannels
                           intSample == Quantize(buffer.channelData[channel + 1][i + 1])
                       IN  <<44 + 2 * (k - 1), setUint(intSample, 2)>>]
        writes == header \o samples
        Covers(w, offset) == writes[w][1] <= offset /\ offset < writes[w][1] + Len(writes[w][2])
    IN  [place \in 1..bufferSize |->
            IF \E w \in 1..Len(writes) : Covers(w, place - 1)
            THEN LET last == CHOOSE v \in 1..Len(writes) :
                                 /\ Covers(v, place - 1)
                                 /\ \A later \in (v + 1)..Len(writes) : ~Covers(later, place - 1)
                 IN  writes[last][2][place - writes[last][1]]
            ELSE 0]

\* lines 987-990 (and 241-246): the first 12 bytes as a string start with
\* 'RIFF' and include 'WAVE'
HeaderIsWav(bytes) ==
    LET headerBytes == SubSeq(bytes, 1, IF Len(bytes) < HeaderBytes THEN Len(bytes) ELSE HeaderBytes)
    IN  /\ Len(headerBytes) >= 4
        /\ SubSeq(headerBytes, 1, 4) = writeString("RIFF")
        /\ \E at \in 1..(Len(headerBytes) - 3) :
               SubSeq(headerBytes, at, at + 3) = writeString("WAVE")

\* lines 1079-1083 and 983-992: what audioBufferToWav and convertToWav throw
\* for the encoded bytes, <<>> when the blob is made of them
convertToWavError(wavBuffer) ==
    IF SubSeq(wavBuffer, 1, 4) # writeString("RIFF")
    THEN Some(Err("Error", <<"Invalid WAV header generated">>))
    ELSE IF Len(wavBuffer) = 0 THEN Some(Err("Error", <<"WAV buffer is empty">>))
    ELSE IF ~HeaderIsWav(wavBuffer) THEN Some(Err("Error", <<"Invalid WAV file structure generated">>))
    ELSE Undefined

\* The buffers a call is given: at most MaxChannels channels of at most
\* MaxFrames frames
MaxChannels == 2

MaxFrames == 3

\* sample values: silence, halves and quarters, full scale, beyond full scale
\* and the smallest steps below 0
SampleValues ==
    << [num |-> 0, den |-> 1], [num |-> 1, den |-> 2], [num |-> -1, den |-> 2],
       [num |-> 1, den |-> 1], [num |-> 3, den |-> 2], [num |-> -2, den |-> 1],
       [num |-> -1, den |-> 1], [num |-> -1, den |-> 65536], [num |-> -3, den |-> 65536],
       [num |-> 1, den |-> 4] >>

\* each channel holds consecutive sample values (taken in a circle) from a
\* place of its own
WavBuffers ==
    {[length |-> n, numberOfChannels |-> c, sampleRate |-> r,
      channelData |->
          [ch \in 1..c |->
              [i \in 1..n |-> SampleValues[((from[ch] + i - 2) % Len(SampleValues)) + 1]]]] :
        n \in 1..MaxFrames, r \in {8000, 44100, 48000},
        c \in 1..MaxChannels,
        from \in [1..MaxChannels -> 1..Len(SampleValues)]}

InitWav ==
    /\ ClientInit
    /\ RecorderInit
    /\ ConcurrentInit
    /\ AppInit
    /\ args \in {[buffer |-> buffer] : buffer \in WavBuffers}
    /\ returned = Undefined

\* audioBufferToWav is called with the buffer and returns
CallWav ==
    /\ returned = Undefined
    /\ returned' = Some(audioBufferToWav(args.buffer))
    /\ UNCHANGED <<args, clientVars, recorderVars, concurrentVars, appVars>>

SpecWav == InitWav /\ [][CallWav]_vars

----------------------------------------------------------------------------
(* The sample rule of audioBufferToWav (lines 1063-1066) applied to one      *)
(* sample: every multiple of 1 / 32768 in [-1, 1], which gives every 16-bit  *)
(* value.                                                                    *)

InitQuantize ==
    /\ ClientInit
    /\ RecorderInit
    /\ ConcurrentInit
    /\ AppInit
    /\ args \in {[sample |-> [num |-> n, den |-> 32768]] : n \in -32768..32768}
    /\ returned = Undefined

\* one pass of the inner loop: the sample becomes intSample
CallQuantize ==
    /\ returned = Undefined
    /\ returned' = Some(Quantize(args.sample))
    /\ UNCHANGED <<args, clientVars, recorderVars, concurrentVars, appVars>>

SpecQuantize == InitQuantize /\ [][CallQuantize]_vars

----------------------------------------------------------------------------
(* Properties *)

GetCount == Cardinality({i \in 1..Len(netLog) : netLog[i].method = "GET"})

PostCount(url) ==
    Cardinality({i \in 1..Len(netLog) : netLog[i].method = "POST" /\ netLog[i].url = url})

Finished == pc \in {"done", "failed"}

\* C1: a run issues at most 60 poll GETs; when all 60 responses were
\* non-terminal the run ends with the timeout error and no 61st GET is sent;
\* the timeout error is not the error raised for a provider 'error' status.
C1_PollBudget ==
    /\ GetCount <= 60
    /\ nonTerminal <= 60
    /\ nonTerminal = 60 =>
          /\ GetCount = 60
          /\ pc \in {"sleeping", "failed"}
          /\ pc = "failed" => outcome = Rejected(Timeout)
    /\ (Finished /\ outcome = Rejected(Timeout)) => nonTerminal = 60 /\ GetCount = 60
    /\ apiInfo.transcriptStatus = Some("error") => outcome # Rejected(Timeout)

C1_Witness ==
    pc = "failed" /\ outcome = Rejected(Timeout) /\ GetCount = 60 /\ nonTerminal = 60

\* C2: the requests of a run are the upload POST, then the submit POST, then
\* poll GETs; the submit follows a 2xx upload response with an upload_url and
\* carries it as audio_url; the first poll follows a submit response with a
\* job id and every poll targets that id; at most one request is outstanding.
C2_RequestOrder ==
    /\ Cardinality(inflight) <= 1
    /\ \A i \in 1..Len(netLog) :
          /\ i = 1 => netLog[i].method = "POST" /\ netLog[i].url = UploadEndpoint
          /\ i = 2 => /\ netLog[i].method = "POST" /\ netLog[i].url = TranscriptEndpoint
                      /\ uploadUrl # Undefined /\ uploadUrl[1] # ""
                      /\ netLog[i].body.audio_url = uploadUrl[1]
          /\ i >= 3 => /\ netLog[i].method = "GET"
                       /\ transcriptId # Undefined /\ transcriptId[1] # ""
                       /\ netLog[i].url = <<apiUrl, "/transcript/", transcriptId[1]>>
    /\ pc = "uploading" => Len(netLog) = 1 /\ inflight = {1}
    /\ pc = "submitting" =>
          /\ Len(netLog) = 2 /\ inflight = {2}
          /\ ~response[1].rejected
          /\ response[1].status \in 200..299
          /\ response[1].body.json
          /\ response[1].body.data.upload_url = uploadUrl
    /\ pc = "polling" =>
          /\ Len(netLog) >= 3 /\ inflight = {Len(netLog)}
          /\ Len(netLog) = 3 => ~response[1].rejected /\ response[1].data.id = transcriptId
    /\ pc \in {"idle", "sleeping", "done", "failed"} => inflight = {}

C2_Witness == pc = "polling" /\ Len(netLog) = 5

C4_SizeValidation ==
    (pc # "idle" /\ apiKey # "" /\ apiInfo.uploadSize < 1000) =>
        /\ pc = "failed"
        /\ outcome = IF apiInfo.uploadSize = 0 THEN Rejected(AudioEmpty) ELSE Rejected(AudioTooSmall)
        /\ netLog = <<>>
        /\ inflight = {}
        /\ events = <<>>

C4_Witness ==
    pc = "failed" /\ apiKey # "" /\ apiInfo.uploadSize = 999 /\ outcome = Rejected(AudioTooSmall)

\* C5: when k-1 non-terminal poll responses are followed by a completed one
\* with a non-empty utterance list (1 <= k <= 60), exactly k GETs are issued
\* and the run returns the segments of that k-th response, one per utterance.
C5_CompletedAfterK ==
    (pc = "done" /\ response[1].data.utterances # Undefined
                 /\ Len(response[1].data.utterances[1]) > 0) =>
        LET us == response[1].data.utterances[1]
            segs == outcome.value.segments
        IN  /\ outcome.state = "fulfilled"
            /\ GetCount = nonTerminal + 1
            /\ GetCount \in 1..60
            /\ Len(segs) = Len(us)
            /\ \A i \in 1..Len(us) :
                  /\ segs[i].start.milli = (IF us[i].start = <<>> THEN 0 ELSE us[i].start[1])
                  /\ segs[i].end.milli = (IF us[i].end = <<>> THEN 0 ELSE us[i].end[1])
                  /\ segs[i].text = (IF us[i].text = <<>> THEN "" ELSE us[i].text[1])

C5_Witness ==
    /\ pc = "done" /\ nonTerminal = 2 /\ GetCount = 3
    /\ response[1].data.utterances = Some(<<UtterA, UtterB, UtterBare>>)
    /\ Len(outcome.value.segments) = 3

\* C6: once a poll response carries completed or error the run is over: no
\* further request is issued, also when the completed response has no speech.
C6_TerminalStatus ==
    apiInfo.transcriptStatus \in {Some("completed"), Some("error")} =>
        /\ Finished
        /\ inflight = {}
        /\ GetCount = apiInfo.pollAttempts
        /\ Len(netLog) = apiInfo.pollAttempts + 2

C6_Witness ==
    /\ pc = "failed" /\ outcome = Rejected(NoSpeech)
    /\ apiInfo.transcriptStatus = Some("completed") /\ apiInfo.pollAttempts = 2

\* C7: a poll response with status error fails the run with the provider
\* error, whose message carries the provider's error text when the response
\* has one; the run neither goes on polling nor ends in the timeout.
C7_ProviderError ==
    apiInfo.transcriptStatus = Some("error") =>
        /\ pc = "failed"
        /\ outcome.state = "rejected"
        /\ Len(outcome.error.message) = 2
        /\ outcome.error.message[1] = "Transcription failed: "
        /\ (response[1].data.error # Undefined /\ response[1].data.error[1] # "") =>
               outcome.error.message[2] = response[1].data.error[1]
        /\ outcome # Rejected(Timeout)
        /\ GetCount = apiInfo.pollAttempts

C7_Witness ==
    /\ apiInfo.transcriptStatus = Some("error")
    /\ response[1].data.status_text = Some("failed")
    /\ outcome = Rejected(TranscriptionFailed("Audio file could not be decoded"))

\* C8: a poll GET that fails in transport, at the first or a later attempt,
\* fails the run at that attempt: the error is thrown, the attempt is not
\* retried and no further poll is issued.
C8_PollTransportFailure ==
    (Len(netLog) >= 3 /\ response # Undefined /\ response[1].rejected) =>
        /\ pc = "failed"
        /\ outcome.state = "rejected"
        /\ outcome.error \in {response[1].error,
                              Err("Error", <<"Failed to check transcription status: ", "Unknown error">>)}
        /\ inflight = {}
        /\ GetCount = attempts + 1
        /\ nonTerminal = attempts

C8_Witness ==
    /\ pc = "failed" /\ GetCount = 3 /\ response[1].rejected
    /\ outcome.error.name = "AxiosError"
    /\ outcome.error.message = <<"Network Error">>

\* C9: a non-2xx upload response fails the run with an upload error carrying
\* the HTTP status and the provider's message, for JSON and non-JSON error
\* bodies alike; no submit or poll follows and the upload is issued once.
C9_UploadError ==
    (Len(netLog) >= 1 /\ pc # "uploading" /\ Len(netLog) < 2
        /\ ~response[1].rejected /\ ~(response[1].status \in 200..299)) =>
        /\ pc = "failed"
        /\ outcome.state = "rejected"
        /\ Len(outcome.error.message) = 4
        /\ outcome.error.message[1] = "Upload failed ("
        /\ outcome.error.message[2] = ToString(response[1].status)
        /\ (response[1].body.json /\ response[1].body.data.error # Undefined) =>
               outcome.error.message[4] = response[1].body.data.error[1]
        /\ ~response[1].body.json => outcome.error.message[4] = response[1].body.text
        /\ PostCount(UploadEndpoint) = 1
        /\ PostCount(TranscriptEndpoint) = 0
        /\ GetCount = 0

\* C10: a submit that fails (non-2xx or transport) or whose response has no
\* job id fails the run with a submit error; no poll GET is issued, and the
\* submit is issued at most once.
C10_SubmitFailure ==
    /\ PostCount(TranscriptEndpoint) <= 1
    /\ (Len(netLog) >= 2 /\ pc # "submitting"
            /\ (transcriptId = Undefined \/ transcriptId[1] = "")) =>
          /\ pc = "failed"
          /\ GetCount = 0
          /\ Len(netLog) = 2
          /\ outcome.state = "rejected"
          /\ response[1].rejected =>
                /\ Len(outcome.error.message) = 2
                /\ outcome.error.message[1] = "Failed to start transcription: "
          /\ ~response[1].rejected =>
                outcome.error.message = <<"Failed to get transcript ID from API response">>

C10_Witness ==
    /\ pc = "failed" /\ Len(netLog) = 2 /\ response[1].rejected
    /\ outcome = Rejected(StartFailed("audio_url is invalid"))

\* Telemetry of a run: the events the observer was called with, the requests
\* issued and the requests that have settled, per method and endpoint
EventCount(method, url, phases) ==
    Cardinality({i \in 1..Len(events) :
        events[i].method = method /\ events[i].url = url /\ events[i].phase \in phases})

RequestCount(method, url) ==
    Cardinality({i \in 1..Len(netLog) : netLog[i].method = method /\ netLog[i].url = url})

SettledCount(method, url) ==
    Cardinality({i \in (1..Len(netLog)) \ inflight :
        netLog[i].method = method /\ netLog[i].url = url})

PollUrl == PollEndpoint(IdText(transcriptId))

\* C11 as stated: with an observer registered, every request issued (upload,
\* submit, each poll GET) has its "request" event and every request that
\* settled has its "response" or "error" event.
C11_EveryTransition ==
    requestCallback =>
        \A i \in 1..Len(netLog) :
            /\ EventCount(netLog[i].method, netLog[i].url, {"request"})
                    = RequestCount(netLog[i].method, netLog[i].url)
            /\ EventCount(netLog[i].method, netLog[i].url, {"response", "error"})
                    = SettledCount(netLog[i].method, netLog[i].url)

\* C11 (amended): with an observer registered, the upload, the submit and the
\* first poll GET each emit one "request" event and later GETs emit none; the
\* submit emits one event when it settles; the upload emits one when its
\* response has a JSON body and none when the fetch is rejected or the body is
\* not JSON; a poll response emits an event only on the first attempt or with
\* status completed or error, and a rejected GET emits none. Without an
\* observer nothing is emitted.
C11_Telemetry ==
    /\ ~requestCallback => events = <<>>
    /\ requestCallback =>
        /\ EventCount("POST", UploadEndpoint, {"request"}) = RequestCount("POST", UploadEndpoint)
        /\ EventCount("POST", TranscriptEndpoint, {"request"}) = RequestCount("POST", TranscriptEndpoint)
        /\ EventCount("GET", PollUrl, {"request"}) = IF GetCount >= 1 THEN 1 ELSE 0
        /\ EventCount("POST", TranscriptEndpoint, {"response", "error"})
                = SettledCount("POST", TranscriptEndpoint)
        /\ EventCount("POST", UploadEndpoint, {"response", "error"})
                = IF Len(netLog) >= 2
                     \/ (Len(netLog) = 1 /\ inflight = {} /\ ~response[1].rejected /\ response[1].body.json)
                  THEN 1 ELSE 0
        /\ EventCount("GET", PollUrl, {"error"}) = 0
        /\ EventCount("GET", PollUrl, {"response"})
                = (IF apiInfo.pollAttempts >= 1 THEN 1 ELSE 0)
                  + (IF apiInfo.pollAttempts >= 2
                        /\ apiInfo.transcriptStatus \in {Some("completed"), Some("error")}
                     THEN 1 ELSE 0)

\* an observed run whose third GET brought the completed transcript
C11_Witness ==
    /\ requestCallback
    /\ pc = "done"
    /\ GetCount = 3
    /\ EventCount("GET", PollUrl, {"request"}) = 1
    /\ EventCount("GET", PollUrl, {"response"}) = 2

\* What a stretch of the invocation does apart from telemetry: where it goes,
\* the result or error, and the request it issues
Control(step) == [pc |-> step.pc, outcome |-> step.outcome, request |-> step.request]

\* C12: for the same input and the same provider response, the next network
\* request and the result or error are the same whether no observer is
\* registered, or one that returns, or one that raises: at every point of a
\* run, each stretch of it does the same as it does without an observer.
C12_Observational ==
    \A obs \in Observers :
        /\ pc = "idle" =>
              \A blob \in Blobs, fileName \in FileNameArgs :
                  Control(TranscribeStep(obs, apiKey, blob, fileName))
                      = Control(TranscribeStep("none", apiKey, blob, fileName))
        /\ pc = "uploading" =>
              \A s \in UploadSettlements : Control(UploadStep(obs, s)) = Control(UploadStep("none", s))
        /\ pc = "submitting" =>
              \A s \in SubmitSettlements : Control(SubmitStep(obs, s)) = Control(SubmitStep("none", s))
        /\ pc = "polling" =>
              \A s \in PollSettlements : Control(PollStep(obs, s)) = Control(PollStep("none", s))

\* a stopRecording call that acted on a recorder has settled
Settled(k) == stopCalls[k].recorder # Undefined /\ stopCalls[k].promise # Pending

\* the stream that the recorder of call k captures
StreamOf(k) == recorders[stopCalls[k].recorder[1]].stream

\* C13: once a stopRecording call has settled, in whichever way (a WAV blob,
\* the empty-recording error, a conversion failure), the stream that
\* startRecording opened for the recording it stopped is released: its
\* tracks are stopped and this.stream no longer refers to it.
C13_StreamReleased ==
    \A k \in 1..Len(stopCalls) :
        Settled(k) => (~streams[StreamOf(k)] /\ stream # Some(StreamOf(k)))

RECURSIVE SumSpeakingTime(_)
SumSpeakingTime(speakers) ==
    IF speakers = <<>> THEN 0 ELSE speakers[1].speakingTime + SumSpeakingTime(Tail(speakers))

\* C14: the speaking times of the speakers calculateSpeakerStats returns sum
\* to at most the totalDuration it returns, whatever the segments and the
\* override.
C14_SumWithinTotal ==
    returned # Undefined =>
        SumSpeakingTime(returned[1].speakers) <= returned[1].totalDuration

\* the segments in every order
Orders(n) == {f \in [1..n -> 1..n] : \A i, j \in 1..n : f[i] = f[j] => i = j}

Reordered(segments) ==
    {[i \in 1..Len(segments) |-> segments[f[i]]] : f \in Orders(Len(segments))}

PhraseCount(phrases, text) == Cardinality({i \in 1..Len(phrases) : phrases[i] = text})

\* what of an output does not depend on the order of the segments
Unordered(out) ==
    [totalDuration |-> out.totalDuration,
     speakers |-> {[label |-> out.speakers[i].label,
                    speakingTime |-> out.speakers[i].speakingTime,
                    percentage |-> out.speakers[i].percentage,
                    phrases |-> [text \in {Trim(x) : x \in SegmentTexts} |->
                                    PhraseCount(out.speakers[i].allPhrases, text)]] :
                   i \in 1..Len(out.speakers)}]

C16_PercentageRange ==
    returned # Undefined =>
        \A i \in 1..Len(returned[1].speakers) :
            /\ returned[1].speakers[i].percentage.num >= 0
            /\ returned[1].speakers[i].percentage.num <= 100 * returned[1].speakers[i].percentage.den

\* C17: every Segment of a result has start <= end, and both times lie
\* between 0 and the total audio duration returned with the segments.
C17_SegmentTimes ==
    pc = "done" =>
        \A i \in 1..Len(outcome.value.segments) :
            LET segment == outcome.value.segments[i]
            IN  /\ 0 <= segment.start.milli
                /\ segment.start.milli <= segment.end.milli
                /\ segment.end.milli <= outcome.value.audioDuration

\* C18: when the completed payload has a non-empty utterance list, the
\* result has one Segment per utterance in the same order, labelled
\* "Speaker {id}", with start and end the utterance's milliseconds divided by
\* 1000 and the utterance's text ("" when it has none), whatever the word
\* list holds.
C18_PrimaryPath ==
    (pc = "done" /\ response[1].data.utterances # Undefined
        /\ response[1].data.utterances[1] # <<>>) =>
        LET utterances == response[1].data.utterances[1]
            result == outcome.value.segments
        IN  /\ Len(result) = Len(utterances)
            /\ \A i \in 1..Len(utterances) :
                   /\ utterances[i].speaker # Undefined =>
                          result[i].speaker = "Speaker " \o utterances[i].speaker[1]
                   /\ utterances[i].start # Undefined =>
                          Mul1000(result[i].start) = utterances[i].start[1]
                   /\ utterances[i].end # Undefined =>
                          Mul1000(result[i].end) = utterances[i].end[1]
                   /\ result[i].text = IF utterances[i].text = Undefined THEN ""
                                       ELSE utterances[i].text[1]

\* a result of three utterances from a payload that also has four words
C18_Witness ==
    /\ pc = "done"
    /\ response[1].data.utterances = Some(<<UtterA, UtterB, UtterBare>>)
    /\ response[1].data.words # Undefined
    /\ Len(response[1].data.words[1]) = 4
    /\ Len(outcome.value.segments) = 3
    /\ outcome.value.segments[2].speaker = "Speaker B"

\* the words that carry a speaker tag, in order
Tagged(words) == SelectSeq(words, LAMBDA w : Truthy(w.speaker))

\* the places in the tagged words where the speaker differs from the word before
GroupStarts(tagged) ==
    {i \in 1..Len(tagged) : i = 1 \/ tagged[i].speaker # tagged[i - 1].speaker}

\* the g-th smallest member of a set of numbers
Nth(S, g) == CHOOSE x \in S : Cardinality({y \in S : y < x}) = g - 1

ExampleWords ==
    <<Utterance(Some("A"), Some(0), Some(1), Some("hi")),
      Utterance(Some("A"), Some(1), Some(2), Some("there")),
      Utterance(Some("B"), Some(2), Some(3), Some("yo"))>>

\* C19: groupWordsBySpeaker drops the words without a speaker tag and makes
\* one utterance of every run of consecutive words with the same tag: a new
\* one begins where the tag differs from the word before; its speaker is the
\* run's tag, its start the first word's start and its end the last word's
\* end.  A:"hi"[0,1], A:"there"[1,2], B:"yo"[2,3] give A "hi there" 0..2 and
\* B "yo" 2..3.
C19_Grouping ==
    returned # Undefined =>
        LET tagged == Tagged(args.words)
            starts == GroupStarts(tagged)
            groups == returned[1]
        IN  /\ Len(groups) = Cardinality(starts)
            /\ \A g \in 1..Len(groups) :
                   LET first == Nth(starts, g)
                       last == IF g < Len(groups) THEN Nth(starts, g + 1) - 1 ELSE Len(tagged)
                   IN  /\ groups[g].speaker = tagged[first].speaker
                       /\ groups[g].start = tagged[first].start
                       /\ groups[g].end = tagged[last].end
            /\ args.words = ExampleWords =>
                   groups = <<Utterance(Some("A"), Some(0), Some(2), Some("hi there")),
                              Utterance(Some("B"), Some(2), Some(3), Some("yo"))>>

\* the example has been grouped into its two utterances
C19_Witness ==
    /\ returned # Undefined
    /\ args.words = ExampleWords
    /\ Len(returned[1]) = 2
    /\ returned[1][1].end = Some(2)

\* a text without a blank at either end and without two blanks in a row
NoStrayBlank(s) ==
    /\ Len(s) > 0 => (SubSeq(s, 1, 1) # " " /\ SubSeq(s, Len(s), Len(s)) # " ")
    /\ \A i \in 1..(Len(s) - 1) : SubSeq(s, i, i + 1) # "  "

\* C20: the text of every utterance groupWordsBySpeaker makes is the texts of
\* its words joined with single blanks: it has no blank at its start or end
\* and no two blanks in a row, also when a word's text is empty or missing.
C20_SingleSpaces ==
    returned # Undefined =>
        \A g \in 1..Len(returned[1]) : NoStrayBlank(returned[1][g].text[1])

\* the latest request was a poll GET that brought a completed payload
CompletedArrived ==
    /\ GetCount >= 1
    /\ pc \in {"done", "failed"}
    /\ ~response[1].rejected
    /\ response[1].data.status = Some("completed")

\* a list of the payload is absent or empty
NoneIn(list) == list = Undefined \/ list[1] = <<>>

\* C21: a completed payload whose utterance list is empty or absent and whose
\* word list is empty or absent fails the run with the no-speech error, and
\* no run ever succeeds with an empty segment list.
C21_NoSpeech ==
    /\ pc = "done" => Len(outcome.value.segments) > 0
    /\ (CompletedArrived /\ NoneIn(response[1].data.utterances)
            /\ NoneIn(response[1].data.words)) =>
          /\ pc = "failed"
          /\ outcome = Rejected(NoSpeech)

\* the first GET brought a completed payload with an empty utterance list and
\* no word list
C21_Witness ==
    /\ CompletedArrived
    /\ response[1].data.utterances = Some(<<>>)
    /\ response[1].data.words = Undefined
    /\ outcome = Rejected(NoSpeech)
    /\ GetCount = 1

\* d is the greatest end of the segments, in ms
IsMaxEndMs(d, result) ==
    /\ \A i \in 1..Len(result) : result[i].end.milli <= d
    /\ \E i \in 1..Len(result) : result[i].end.milli = d

\* C22 as stated: the duration returned with the segments is the provider's
\* audio_duration in ms whenever the payload has one, otherwise the greatest
\* segment end in ms, otherwise 0.
C22_DeclaredWhenPresent ==
    pc = "done" =>
        LET declared == response[1].data.audio_duration
            result == outcome.value.segments
        IN  IF declared # Undefined THEN outcome.value.audioDuration = declared[1] * 1000
            ELSE IF Len(result) > 0 THEN IsMaxEndMs(outcome.value.audioDuration, result)
            ELSE outcome.value.audioDuration = 0

\* C22 (amended): the duration returned with the segments is the provider's
\* audio_duration in ms when the payload has one that is not 0; otherwise
\* (absent or 0) it is the greatest segment end in ms.  A result always has a
\* segment, so the last resort 0 is never taken.
C22_Duration ==
    pc = "done" =>
        LET declared == response[1].data.audio_duration
            result == outcome.value.segments
        IN  /\ Len(result) > 0
            /\ IF declared # Undefined /\ declared[1] # 0
               THEN outcome.value.audioDuration = declared[1] * 1000
               ELSE IsMaxEndMs(outcome.value.audioDuration, result)

\* a payload that declares audio_duration 0 gave the greatest segment end
C22_Witness ==
    /\ pc = "done"
    /\ response[1].data.audio_duration = Some(0)
    /\ response[1].data.utterances = Some(<<UtterA, UtterB, UtterBare>>)
    /\ outcome.value.audioDuration = 4000

\* C23 as stated: totalDuration is the override whenever one is given,
\* otherwise the greatest segment end x 1000, otherwise the sum of the
\* speaking times.
C23_OverrideWhenGiven ==
    returned # Undefined =>
        IF args.totalAudioDuration # Undefined
        THEN returned[1].totalDuration = args.totalAudioDuration[1]
        ELSE IF Len(args.segments) > 0
        THEN IsMaxEndMs(returned[1].totalDuration, args.segments)
        ELSE returned[1].totalDuration = SumSpeakingTime(returned[1].speakers)

\* C23 (amended): totalDuration is the override when one is given and is not
\* 0; otherwise (none, or 0) the greatest segment end x 1000 when there are
\* segments and it is not 0; otherwise the sum of the speaking times.
C23_TotalDuration ==
    returned # Undefined =>
        IF args.totalAudioDuration # Undefined /\ args.totalAudioDuration[1] # 0
        THEN returned[1].totalDuration = args.totalAudioDuration[1]
        ELSE IF Len(args.segments) > 0 /\ ~IsMaxEndMs(0, args.segments)
        THEN IsMaxEndMs(returned[1].totalDuration, args.segments)
        ELSE returned[1].totalDuration = SumSpeakingTime(returned[1].speakers)

\* an override of 1500 ms was taken over segments that end at 3000 ms, and an
\* override of 0 would not be
C23_Witness ==
    /\ returned # Undefined
    /\ args.totalAudioDuration = Some(1500)
    /\ Len(args.segments) = 2
    /\ IsMaxEndMs(3000, args.segments)
    /\ returned[1].totalDuration = 1500
    /\ calculateSpeakerStats(args.segments, Some(0)).totalDuration = 3000

\* C24: every speaker's percentage is speakingTime / totalDuration x 100, and
\* it is 0 when totalDuration is 0, without a division by zero; with the
\* override 0 and no segments the result is totalDuration 0 and no speakers.
C24_Percentage ==
    returned # Undefined =>
        /\ \A i \in 1..Len(returned[1].speakers) :
               LET speaker == returned[1].speakers[i]
                   total == returned[1].totalDuration
               IN  /\ speaker.percentage.den # 0
                   /\ total = 0 => speaker.percentage.num = 0
                   /\ total > 0 =>
                          /\ speaker.percentage.num = speaker.speakingTime * 100
                          /\ speaker.percentage.den = total
        /\ (args.segments = <<>> /\ args.totalAudioDuration = Some(0)) =>
               returned[1] = [speakers |-> <<>>, totalDuration |-> 0]

\* two speakers whose segments have no length: totalDuration is 0 and both
\* percentages are 0
C24_Witness ==
    /\ returned # Undefined
    /\ returned[1].totalDuration = 0
    /\ Len(returned[1].speakers) = 2
    /\ returned[1].speakers[1].percentage = [num |-> 0, den |-> 1]
    /\ args.totalAudioDuration = Some(0)

\* C25: every segment adds (end - start) x 1000 to the speakingTime of its
\* speaker; its trimmed text becomes a phrase of the speaker only when the
\* trimmed text has at least 10 characters, so that no shorter text is in
\* allPhrases or speechExamples.
SegmentsOf(label) == SelectSeq(args.segments, LAMBDA segment : segment.speaker = label)

RECURSIVE TimeOf(_)
TimeOf(segments) ==
    IF segments = <<>> THEN 0
    ELSE (segments[1].end.milli - segments[1].start.milli) + TimeOf(Tail(segments))

RECURSIVE PhrasesOf(_)
PhrasesOf(segments) ==
    IF segments = <<>> THEN <<>>
    ELSE (IF Len(Trim(segments[1].text)) >= 10 THEN <<Trim(segments[1].text)>> ELSE <<>>)
         \o PhrasesOf(Tail(segments))

C25_TimedAndCollected ==
    returned # Undefined =>
        /\ \A k \in 1..Len(args.segments) :
               \E i \in 1..Len(returned[1].speakers) :
                   returned[1].speakers[i].label = args.segments[k].speaker
        /\ \A i \in 1..Len(returned[1].speakers) :
               LET speaker == returned[1].speakers[i]
               IN  /\ speaker.speakingTime = TimeOf(SegmentsOf(speaker.label))
                   /\ speaker.allPhrases = PhrasesOf(SegmentsOf(speaker.label))
                   /\ \A j \in 1..Len(speaker.allPhrases) : Len(speaker.allPhrases[j]) >= 10
                   /\ \A j \in 1..Len(speaker.speechExamples) :
                          Len(speaker.speechExamples[j]) >= 10

\* a text of nine characters between blanks is timed but not kept, and one
\* of ten is kept without its blanks
C25_Witness ==
    /\ returned # Undefined
    /\ Len(args.segments) = 2
    /\ args.segments[1].text = "  nine char  "
    /\ args.segments[2].text = " ten chars. "
    /\ Len(returned[1].speakers) = 1
    /\ returned[1].speakers[1].speakingTime = 2000
    /\ returned[1].speakers[1].allPhrases = <<"ten chars.">>
    /\ returned[1].speakers[1].speechExamples = <<"ten chars.">>

\* C26: extractSpeechExamples of an empty list is empty; of any other list it
\* is the first phrase, then the phrase at index floor(count / 2) (counted
\* from 0, as the source indexes) when there are at least 3 phrases, then the
\* last phrase when there are at least 2, in that order, at most 3 entries.
C26_RepresentativeSample ==
    returned # Undefined =>
        LET texts == args.texts
            count == Len(texts)
            examples == returned[1]
        IN  /\ Len(examples) <= 3
            /\ count = 0 => examples = <<>>
            /\ count = 1 => examples = <<texts[1]>>
            /\ count = 2 => examples = <<texts[1], texts[2]>>
            /\ count >= 3 => examples = <<texts[1], texts[(count \div 2) + 1], texts[count]>>

\* three phrases: the one at index 1 is the middle one
C26_Witness ==
    /\ returned # Undefined
    /\ args.texts = <<"a", "b", "c">>
    /\ returned[1] = <<"a", "b", "c">>

\* C27: as the claim has it, extractSpeechExamples(["a","b","c","d"]) is
\* ["a","b","d"], extractSpeechExamples(["a"]) is ["a"] and
\* extractSpeechExamples([]) is [].
C27_ExamplesAsStated ==
    returned # Undefined =>
        /\ args.texts = <<"a", "b", "c", "d">> => returned[1] = <<"a", "b", "d">>
        /\ args.texts = <<"a">> => returned[1] = <<"a">>
        /\ args.texts = <<>> => returned[1] = <<>>

\* C27 (amended): extractSpeechExamples(["a","b","c","d"]) is ["a","c","d"]
\* (index floor(4 / 2) = 2 holds "c"), extractSpeechExamples(["a"]) is ["a"]
\* and extractSpeechExamples([]) is [].
C27_Examples ==
    returned # Undefined =>
        /\ args.texts = <<"a", "b", "c", "d">> => returned[1] = <<"a", "c", "d">>
        /\ args.texts = <<"a">> => returned[1] = <<"a">>
        /\ args.texts = <<>> => returned[1] = <<>>

C27_Witness ==
    /\ returned # Undefined
    /\ args.texts = <<"a", "b", "c", "d">>
    /\ returned[1] = <<"a", "c", "d">>

\* C28: the speakers are returned by speakingTime in descending order, and
\* speakers with the same speakingTime are in the order in which their labels
\* first occur in the segments.
FirstSegmentOf(label) ==
    CHOOSE k \in 1..Len(args.segments) :
        /\ args.segments[k].speaker = label
        /\ \A j \in 1..(k - 1) : args.segments[j].speaker # label

C28_SortedStable ==
    returned # Undefined =>
        \A i, j \in 1..Len(returned[1].speakers) :
            i < j =>
                LET first == returned[1].speakers[i]
                    second == returned[1].speakers[j]
                IN  /\ first.speakingTime >= second.speakingTime
                    /\ first.speakingTime = second.speakingTime =>
                           FirstSegmentOf(first.label) < FirstSegmentOf(second.label)

\* Speaker B is heard first and speaks as long as Speaker A: B stays first
C28_Witness ==
    /\ returned # Undefined
    /\ Len(returned[1].speakers) = 2
    /\ args.segments[1].speaker = "Speaker B"
    /\ returned[1].speakers[1].label = "Speaker B"
    /\ returned[1].speakers[1].speakingTime = returned[1].speakers[2].speakingTime
    /\ returned[1].speakers[1].speakingTime > 0

\* C29: for a buffer of c >= 1 channels, sample rate r and n frames,
\* audioBufferToWav returns 44 + n x c x 2 bytes: "RIFF" at offset 0, the
\* little-endian size total - 8 at 4, "WAVE" at 8, "fmt " at 12, the PCM tag 1
\* at 20, c at 22, r at 24, the byte rate r x c x 2 at 28, the block align
\* c x 2 at 32, 16 bits per sample at 34, "data" at 36, the data size
\* n x c x 2 at 40, and the sample of frame i, channel ch at offset
\* 44 + 2 x (i x c + ch); the header read back gives r, c and 16.
U16At(bytes, offset) == bytes[offset + 1] + 256 * bytes[offset + 2]

U32At(bytes, offset) ==
    bytes[offset + 1] + 256 * bytes[offset + 2]
        + 65536 * bytes[offset + 3] + 16777216 * bytes[offset + 4]

S16At(bytes, offset) ==
    IF U16At(bytes, offset) >= 32768 THEN U16At(bytes, offset) - 65536 ELSE U16At(bytes, offset)

CodesAt(bytes, offset) == SubSeq(bytes, offset + 1, offset + 4)

C29_WavLayout ==
    returned # Undefined =>
        LET wav == returned[1]
            c == args.buffer.numberOfChannels
            r == args.buffer.sampleRate
            n == args.buffer.length
        IN  /\ Len(wav) = 44 + n * c * 2
            /\ \A place \in 1..Len(wav) : wav[place] \in 0..255
            /\ CodesAt(wav, 0) = <<82, 73, 70, 70>>
            /\ U32At(wav, 4) = Len(wav) - 8
            /\ CodesAt(wav, 8) = <<87, 65, 86, 69>>
            /\ CodesAt(wav, 12) = <<102, 109, 116, 32>>
            /\ U16At(wav, 20) = 1
            /\ U16At(wav, 22) = c
            /\ U32At(wav, 24) = r
            /\ U32At(wav, 28) = r * c * 2
            /\ U16At(wav, 32) = c * 2
            /\ U16At(wav, 34) = 16
            /\ CodesAt(wav, 36) = <<100, 97, 116, 97>>
            /\ U32At(wav, 40) = n * c * 2
            /\ \A i \in 0..(n - 1), ch \in 0..(c - 1) :
                   S16At(wav, 44 + 2 * (i * c + ch))
                       = Quantize(args.buffer.channelData[ch + 1][i + 1])

\* two channels of two frames at 44100 Hz (0xAC44), the channels differing
\* in both frames
C29_Witness ==
    /\ returned # Undefined
    /\ args.buffer.numberOfChannels = 2
    /\ args.buffer.length = 2
    /\ args.buffer.sampleRate = 44100
    /\ Len(returned[1]) = 52
    /\ SubSeq(returned[1], 25, 28) = <<68, 172, 0, 0>>
    /\ S16At(returned[1], 44) # S16At(returned[1], 46)
    /\ S16At(returned[1], 48) # S16At(returned[1], 50)
    /\ S16At(returned[1], 44) # S16At(returned[1], 48)

\* C30: every sample s is written as a 16-bit value in [-32768, 32767]: s is
\* clamped to [-1, 1]; below 0 it becomes max(-32768, round(s x 32768)),
\* otherwise min(32767, round(s x 32767)), round being Math.round (the nearest
\* integer, a half going up).  So -1 gives -32768, 0 gives 0, 1 gives 32767,
\* and a sample beyond a bound gives what the bound gives.
IsRound(q, sample, scale) ==
    /\ 2 * (q * sample.den - sample.num * scale) <= sample.den
    /\ 2 * (q * sample.den - sample.num * scale) > -sample.den

C30_Quantization ==
    returned # Undefined =>
        \A i \in 0..(args.buffer.length - 1), ch \in 0..(args.buffer.numberOfChannels - 1) :
            LET s == args.buffer.channelData[ch + 1][i + 1]
                q == S16At(returned[1], 44 + 2 * (i * args.buffer.numberOfChannels + ch))
            IN  /\ q \in -32768..32767
                /\ s.num <= -s.den => q = -32768
                /\ s.num = 0 => q = 0
                /\ s.num >= s.den => q = 32767
                /\ (-s.den < s.num /\ s.num < 0) => IsRound(q, s, 32768)
                /\ (0 <= s.num /\ s.num < s.den) => IsRound(q, s, 32767)

\* one channel holding 1, 1.5 and -2: written as 32767, 32767 and -32768
C30_Witness ==
    /\ returned # Undefined
    /\ args.buffer.numberOfChannels = 1
    /\ args.buffer.channelData[1]
           = <<[num |-> 1, den |-> 1], [num |-> 3, den |-> 2], [num |-> -2, den |-> 1]>>
    /\ S16At(returned[1], 44) = 32767
    /\ S16At(returned[1], 46) = 32767
    /\ S16At(returned[1], 48) = -32768

\* C31: quantization is idempotent: for every sample s in [-1, 1],
\* quantize(dequantize(quantize(s))) = quantize(s), where dequantize(q) is
\* q / 32768 for q < 0 and q / 32767 otherwise.
Dequantize(q) == IF q < 0 THEN [num |-> q, den |-> 32768] ELSE [num |-> q, den |-> 32767]

C31_Idempotent ==
    returned # Undefined => Quantize(Dequantize(returned[1])) = returned[1]

\* a sample between 0 and 1 whose scaled value is not whole: 9830 / 32768
\* gives 9829.7, written as 9830
C31_Witness ==
    /\ returned # Undefined
    /\ args.sample.num = 9830
    /\ returned[1] = 9830
    /\ Quantize(Dequantize(9830)) = 9830

\* C32: no malformed container from the recorder reaches the provider.  The
\* encoder's bytes are turned into a blob only when they start with "RIFF" and
\* hold "WAVE" within the first 12 bytes, otherwise encoding fails with an
\* error (and what audioBufferToWav writes always passes); and for a recorded
\* blob (not a File) of type audio/wav, transcribeWithDiarization issues the
\* upload only when the blob passes that header check, and fails with no
\* request otherwise.
RiffWave == <<82, 73, 70, 70, 36, 0, 0, 0, 87, 65, 86, 69>>

\* headers that are well formed, that lack one of the two marks, that hold
\* "WAVE" elsewhere within or only beyond the 12 bytes, and cut short
HeaderSamples ==
    {RiffWave,
     <<82, 73, 70, 70, 36, 0, 0, 0, 65, 86, 73, 32>>,
     <<26, 69, 223, 163, 36, 0, 0, 0, 87, 65, 86, 69>>,
     <<82, 73, 70, 70, 87, 65, 86, 69, 0, 0, 0, 0>>,
     <<82, 73, 70, 70, 36, 0, 0, 0, 0, 87, 65, 86, 69>>,
     <<82, 73, 70, 88, 36, 0, 0, 0, 87, 65, 86, 69>>,
     <<82, 73, 70, 70>>,
     <<0, 0, 0, 0, 0, 0, 0, 0, 0, 0, 0, 0>>}

HasMarks(bytes) ==
    /\ Len(bytes) >= 8
    /\ SubSeq(bytes, 1, 4) = <<82, 73, 70, 70>>
    /\ \E offset \in 0..8 :
           offset + 4 <= Len(bytes) /\ SubSeq(bytes, offset + 1, offset + 4) = <<87, 65, 86, 69>>

C32_Encoder ==
    /\ \A bytes \in HeaderSamples : (convertToWavError(bytes) = Undefined) <=> HasMarks(bytes)
    /\ \A buffer \in WavBuffers :
           /\ HasMarks(audioBufferToWav(buffer))
           /\ convertToWavError(audioBufferToWav(buffer)) = Undefined

C32_Client ==
    \A blob \in Blobs, fileName \in FileNameArgs :
        (/\ Transcribe(blob, fileName)
         /\ ~blob.isFile
         /\ \/ blob.type = "audio/wav"
            \/ InvalidType(blob.type) /\ fileName = Undefined) =>
            /\ netLog' # <<>> => blob.headerIsWav
            /\ ~blob.headerIsWav => (pc' = "failed" /\ netLog' = <<>> /\ inflight' = {})
            /\ (~blob.headerIsWav /\ apiKey # "" /\ blob.size >= 1000) =>
                   outcome' = Rejected(InvalidWav)

C32_NoMalformedContainer == [][C32_Encoder /\ C32_Client]_vars

\* a recorded blob whose header is not that of a WAV file was turned down
C32_Witness ==
    /\ pc = "failed"
    /\ outcome = Rejected(InvalidWav)
    /\ netLog = <<>>
    /\ apiInfo.uploadSize = 1000

\* C33: when the recorder a stopRecording call stopped has captured no bytes
\* (no chunk of a size above 0), the call is rejected with the
\* empty-recording error, no conversion is started and no blob is returned.
C33_EmptyRecording ==
    [][\A i \in 1..Len(recorders) :
          (RecorderStops(i, 0) /\ stopCalls[recorders[i].onstop[1]].promise = Pending) =>
              /\ stopCalls'[recorders[i].onstop[1]].promise = Rejected(RecordingEmpty)
              /\ conversions' = conversions]_vars

\* C34: invocations of transcribeWithDiarization made side by side on one
\* service share no state of a run.  However their requests and responses
\* interleave, the submit of each names the upload_url its own upload got,
\* each poll asks for the job its own submit made, its attempts count its own
\* polls only, and it returns the segments and the duration of the audio it
\* was given.
RequestsOf(r, method, url) ==
    SelectSeq(runs[r].requests, LAMBDA request : request.method = method /\ request.url = url)

PollsOf(r) == SelectSeq(runs[r].requests, LAMBDA request : request.method = "GET")

C34_NoSharedRunState ==
    \A r \in 1..Len(runs) :
        /\ \A i \in 1..Len(RequestsOf(r, "POST", TranscriptEndpoint)) :
               \E k \in 1..Len(provider.uploads) :
                   /\ provider.uploads[k].by = r
                   /\ RequestsOf(r, "POST", TranscriptEndpoint)[i].body[1].audio_url
                          = "https://cdn.assemblyai.com/upload/" \o ToString(k)
        /\ \A i \in 1..Len(PollsOf(r)) :
               \E j \in 1..Len(provider.jobs) :
                   /\ provider.jobs[j].by = r
                   /\ PollsOf(r)[i].url = <<apiUrl, "/transcript/", "tr_" \o ToString(j)>>
        /\ Len(PollsOf(r)) > 0 => Len(PollsOf(r)) = runs[r].attempts + 1
        /\ Len(PollsOf(r)) = 0 => runs[r].attempts = 0
        /\ runs[r].pc = "done" =>
               /\ runs[r].outcome.state = "fulfilled"
               /\ Len(runs[r].outcome.value.segments) = (IF runs[r].audio = "first" THEN 1 ELSE 2)
               /\ runs[r].outcome.value.audioDuration
                      = (IF runs[r].audio = "first" THEN 2000 ELSE 4000)

\* two invocations with different audio have both returned; the provider
\* took the upload of the second before that of the first, and the submit of
\* the first before that of the second
C34_Witness ==
    /\ Len(runs) = 2
    /\ runs[1].pc = "done"
    /\ runs[2].pc = "done"
    /\ runs[1].audio = "first"
    /\ runs[2].audio = "second"
    /\ provider.uploads[1].by = 2
    /\ provider.jobs[1].by = 1
    /\ runs[1].attempts = 1
    /\ runs[2].attempts = 0

\* C35: no partial state survives a failed run.  When a stopRecording call
\* ends with an error, the recorder service is as it is when idle: no
\* recorder, no chunks and no stream are kept, and no stream is left open.
\* (transcribeWithDiarization keeps its run in locals: the service has only
\* its credential and its callbacks, lines 24-27.)
C35_IdleAfterFailure ==
    [][\A k \in 1..Len(stopCalls') :
          (/\ stopCalls'[k].promise.state = "rejected"
           /\ (k > Len(stopCalls) \/ stopCalls[k].promise = Pending)) =>
              /\ mediaRecorder' = Undefined
              /\ audioChunks' = <<>>
              /\ stream' = Undefined
              /\ \A s \in 1..Len(streams') : ~streams'[s]]_vars

\* C36: in the poll loop a caught error that has a message, or a provider
\* error field in its response, is rethrown as it is: a transport failure
\* reaches the caller with its own name, message and response, not wrapped;
\* only an error with neither becomes 'Failed to check transcription
\* status: Unknown error'.
PollFailed ==
    /\ pc = "failed"
    /\ Len(netLog) >= 3
    /\ response # Undefined
    /\ response[1].rejected

C36_RethrownUnchanged ==
    PollFailed =>
        LET error == response[1].error
            hasMessage == error.message # <<>>
            hasProviderError ==
                error.response # Undefined /\ error.response[1].data.error # Undefined
        IN  IF hasMessage \/ hasProviderError
            THEN outcome = Rejected(error)
            ELSE outcome = Rejected([name |-> "Error", response |-> Undefined,
                                     message |-> <<"Failed to check transcription status: ",
                                                   "Unknown error">>])

\* a failure with a provider error and no message came through unchanged,
\* at the second poll
C36_Witness ==
    /\ PollFailed
    /\ GetCount = 2
    /\ response[1].error.message = <<>>
    /\ response[1].error.response # Undefined
    /\ outcome = Rejected(response[1].error)

\* C37: the auto-save effect adds an item only for a newly processed
\* transcript: what it saves was never put on display by loading it from
\* the history, and no transcript id is auto-saved twice, whatever the
\* order of uploads, loads, renames, deletions, clearings and resets.
C37_AutoSavedOnce ==
    /\ \A i \in DOMAIN autoSaved : ~autoSaved[i].loaded
    /\ \A i, j \in DOMAIN autoSaved :
           autoSaved[i].transcriptId = autoSaved[j].transcriptId => i = j

\* C38: every call of stopRecording settles in the end, resolved with the
\* WAV blob or rejected with an error, whatever starts and stops are made:
\* also a stop made while an earlier stop is pending, and a stop made after
\* an earlier stop failed.
C38_StopSettles ==
    \A k \in 1..MaxStops :
        (k \in DOMAIN stopCalls) ~> (k \in DOMAIN stopCalls /\ stopCalls[k].promise # Pending)

\* C39: at most one capture stream is open at a time: getUserMedia never
\* hands out a new stream while the tracks of a stream opened before are
\* live, whatever the order of startRecording and stopRecording calls.
C39_OneStreamOpen ==
    [][Len(streams') > Len(streams) => \A s \in DOMAIN streams : ~streams[s]]_vars

\* C40: a poll response whose status is none of queued, processing,
\* completed and error (a missing status too) does not end the run: the loop
\* sleeps with nothing settled and no request sent, the timer then counts one
\* attempt and sends the next GET, and after the 60th such response the run
\* is rejected with the timeout error, not a provider or parsing error.
Unrecognised(status) ==
    status \notin {Some("queued"), Some("processing"), Some("completed"), Some("error")}

UnrecognisedReceived ==
    /\ pc = "polling"
    /\ pc' # "polling"
    /\ ~response'[1].rejected
    /\ Unrecognised(response'[1].data.status)

UnrecognisedSlept ==
    /\ pc = "sleeping"
    /\ pc' # "sleeping"
    /\ Unrecognised(response[1].data.status)

C40_UnrecognisedStatus ==
    [][/\ UnrecognisedReceived =>
              /\ pc' = "sleeping"
              /\ outcome' = Pending
              /\ attempts' = attempts
              /\ netLog' = netLog
              /\ inflight' = {}
       /\ UnrecognisedSlept =>
              /\ attempts' = attempts + 1
              /\ IF attempts' < 60
                 THEN /\ pc' = "polling"
                      /\ outcome' = Pending
                      /\ Len(netLog') = Len(netLog) + 1
                      /\ netLog'[Len(netLog')] = PollRequest(transcriptId)
                 ELSE /\ pc' = "failed"
                      /\ outcome' = Rejected(Timeout)
                      /\ netLog' = netLog]_vars

\* the 60th response had a status the loop does not know, and the run timed out
C40_Witness ==
    /\ pc = "failed"
    /\ outcome = Rejected(Timeout)
    /\ attempts = 60
    /\ GetCount = 60
    /\ ~response[1].rejected
    /\ response[1].data.status = Some("paused")

=============================================================================
